---------------------------- MODULE Spec2Model ----------------------------
(***************************************************************************)
(* Sudoku solver engine (constraint propagation + MRV backtracking) of     *)
(* src/solver.js, modelled as a state machine.                             *)
(*                                                                         *)
(* A session works on one caller-owned grid: the caller calls              *)
(* Solver.validate, then Solver.solve, then Solver.solveWithSteps on it,   *)
(* and when solve has returned a grid, hands that grid back to solve and   *)
(* to solveWithSteps.                                                      *)
(* coreSolve runs in steps: its entry (validate, buildCandidates, first    *)
(* propagate), and then one step per dfs entry, per trial value and per    *)
(* exhausted dfs level, and one per return of a dfs activation.  The       *)
(* recursion of dfs is an explicit stack of frames, each holding the       *)
(* (grid, cand) pair of that dfs activation.                               *)
(*                                                                         *)
(* UiSpec is the page of src/unnamed/part_000 around the same solver: its  *)
(* Solve, Clear and file handlers, the cell inputs, the animation of the   *)
(* steps and the timers of flashButton.  OcrSpec is one run of the reader  *)
(* of src/ocr.js up to sanitizeConflicts.                                  *)
(***************************************************************************)
EXTENDS Integers, Sequences, FiniteSets

VARIABLES
    gridInput,   \* the caller's array (argument of validate / solve / solveWithSteps)
    phase,       \* which call of the session is next or running
    pc,          \* "idle" (no coreSolve running), "dfs" (inside dfs), "return" (a dfs returns)
    onStep,      \* TRUE iff the running coreSolve was given a function as onStep
    top,         \* coreSolve's own (grid, cand) after its entry, with what the entry found
    stack,       \* dfs activations, outermost first
    events,      \* the payloads the sink of the running or last call has received, in order
    vres,        \* result of Solver.validate(gridInput)
    sres,        \* result of Solver.solve(gridInput)
    wres,        \* result of Solver.solveWithSteps(gridInput, sink)
    again,       \* the grid solve returned, once it is handed back to the solver,
                 \* with the results of solve and solveWithSteps on it
    ret,         \* the value a dfs activation is returning to its caller
    page,        \* the page of src/unnamed/part_000: the input values, the given flags,
                 \* the solve button and its pending timers, and where its handlers are
    scan         \* one run of the reader of src/ocr.js: what the cells were read as,
                 \* and what sanitizeConflicts made of it

vars ==
    <<gridInput, phase, pc, onStep, top, stack, events, vres, sres, wres, again, ret, page, scan>>

-----------------------------------------------------------------------------
(* Topology *)

Cells == 0 .. 80

\* The array DIGITS, in its order.
DIGITS == <<1, 2, 3, 4, 5, 6, 7, 8, 9>>

idx(r, c) == r * 9 + c

rowOf(i) == i \div 9

colOf(i) == i % 9

boxOf(i) == (rowOf(i) \div 3) * 3 + (colOf(i) \div 3)

Min(S) == CHOOSE x \in S : \A y \in S : x <= y

Max(S) == CHOOSE x \in S : \A y \in S : x >= y

RECURSIVE Ascending(_)
\* The members of a set of integers as a sequence in ascending order.
Ascending(S) == IF S = {} THEN << >> ELSE <<Min(S)>> \o Ascending(S \ {Min(S)})

\* The 27 s.add calls of the PEERS loop for cell i, in program order.
PeerAdds(i) ==
    [n \in 1 .. 27 |->
        LET k == (n - 1) \div 3
            b == boxOf(i)
        IN  CASE (n - 1) % 3 = 0 -> idx(rowOf(i), k)
              [] (n - 1) % 3 = 1 -> idx(k, colOf(i))
              [] OTHER -> idx((b \div 3) * 3 + (k \div 3), (b % 3) * 3 + (k % 3))]

\* PEERS[i]: the peers of cell i in the iteration (insertion) order of the Set,
\* after s.delete(i).
PEERS ==
    [i \in Cells |->
        LET a == PeerAdds(i)
            keep == {n \in 1 .. 27 : a[n] # i /\ \A m \in 1 .. (n - 1) : a[m] # a[n]}
            ord == Ascending(keep)
        IN  [k \in 1 .. Len(ord) |-> a[ord[k]]]]

\* UNITS: 9 rows, then 9 columns, then 9 boxes, each a sequence of 9 cells.
UNITS ==
    [u \in 1 .. 27 |->
        [k \in 1 .. 9 |->
            IF u <= 9 THEN idx(u - 1, k - 1)
            ELSE IF u <= 18 THEN idx(k - 1, u - 10)
            ELSE idx(((u - 19) \div 3) * 3 + ((k - 1) \div 3),
                     ((u - 19) % 3) * 3 + ((k - 1) % 3))]]

-----------------------------------------------------------------------------
(* A JavaScript Set is held as the sequence of its members in insertion     *)
(* order, which is the order in which the Set is iterated.                  *)

\* s.has(v)
has(s, v) == \E k \in 1 .. Len(s) : s[k] = v

\* Mutant of delete: the last member is moved into the place of v.
deleteSwapLast(s, v) ==
    IF \A k \in 1 .. Len(s) : s[k] # v THEN s
    ELSE [k \in 1 .. (Len(s) - 1) |-> IF s[k] = v THEN s[Len(s)] ELSE s[k]]

\* The Set s after s.delete(v): the other members keep their order.
delete(s, v) == SelectSeq(s, LAMBDA x : x # v)

-----------------------------------------------------------------------------
(* Validator *)

\* Mutant of unitConflicts: only the later holder is added (conflicts.add of
\* the seen cell forgotten).
unitConflictsLaterOnly(grid, unit) ==
    {unit[k] : k \in {k \in 1 .. 9 : grid[unit[k]] # 0
                                      /\ \E j \in 1 .. (k - 1) : grid[unit[j]] = grid[unit[k]]}}

\* Mutant of unitConflicts: empty cells are not skipped, so 0 counts as a digit.
unitConflictsZeros(grid, unit) ==
    {unit[k] : k \in {k \in 1 .. 9 : \E j \in 1 .. 9 : j # k /\ grid[unit[j]] = grid[unit[k]]}}

\* The cells one unit adds to conflicts: a cell whose digit was seen earlier
\* in the unit, together with the cell recorded in seen (the first holder).
unitConflicts(grid, unit) ==
    LET dup == {k \in 1 .. 9 : grid[unit[k]] # 0
                               /\ \E j \in 1 .. (k - 1) : grid[unit[j]] = grid[unit[k]]}
        seenAt(k) == Min({j \in 1 .. 9 : grid[unit[j]] = grid[unit[k]]})
    IN  {unit[k] : k \in dup} \cup {unit[seenAt(k)] : k \in dup}

validate(grid) ==
    LET conflicts == UNION {unitConflicts(grid, UNITS[u]) : u \in 1 .. 27}
    IN  [ok |-> conflicts = {}, conflicts |-> conflicts]

-----------------------------------------------------------------------------
(* Candidate builder; NoCand stands for the null return. *)

NoCand == [i \in Cells |-> << >>]

\* Mutant of buildCandidates: an emptied candidate set is not reported.
buildCandidatesNoEmptyCheck(grid) ==
    IF ~validate(grid).ok THEN [ok |-> FALSE, cand |-> NoCand]
    ELSE [ok |-> TRUE,
          cand |-> [i \in Cells |->
                      IF grid[i] # 0 THEN <<grid[i]>>
                      ELSE SelectSeq(DIGITS, LAMBDA d :
                               \A k \in 1 .. Len(PEERS[i]) : grid[PEERS[i][k]] # d)]]

\* Lines 80-82 give a filled cell the Set of its digit and an empty cell the
\* Set of DIGITS; lines 85-93 delete from it the digits of the filled peers.
buildCandidates(grid) ==
    LET cand == [i \in Cells |->
                    IF grid[i] # 0 THEN <<grid[i]>>
                    ELSE SelectSeq(DIGITS, LAMBDA d :
                             \A k \in 1 .. Len(PEERS[i]) : grid[PEERS[i][k]] # d)]
    IN  IF ~validate(grid).ok THEN [ok |-> FALSE, cand |-> NoCand]
        ELSE IF \E i \in Cells : grid[i] = 0 /\ cand[i] = << >>
             THEN [ok |-> FALSE, cand |-> NoCand]
             ELSE [ok |-> TRUE, cand |-> cand]

\* Mutant of solved: the loop looking for a zero cell is missing.
solvedNoZeroCheck(grid) == validate(grid).ok

solved(grid) == (\A i \in Cells : grid[i] # 0) /\ validate(grid).ok

\* Mutant of pickMRV: the test of line 107 is missing, filled cells count too.
pickMRVFilledToo(grid, cand) ==
    LET open == {i \in Cells : Len(cand[i]) < 10}
    IN  IF open = {} THEN -1
        ELSE Min({i \in open : \A j \in open : Len(cand[i]) <= Len(cand[j])})

\* Mutant of pickMRV: n <= bestSize instead of n < bestSize, so the last cell
\* of the smallest candidate count wins.
pickMRVLastTie(grid, cand) ==
    LET open == {i \in Cells : grid[i] = 0 /\ Len(cand[i]) < 10}
    IN  IF open = {} THEN -1
        ELSE Max({i \in open : \A j \in open : Len(cand[i]) <= Len(cand[j])})

\* pickMRV: the first cell, in index order, of the smallest candidate count
\* among the cells with grid[i] = 0; -1 when there is none.
pickMRV(grid, cand) ==
    LET open == {i \in Cells : grid[i] = 0 /\ Len(cand[i]) < 10}
    IN  IF open = {} THEN -1
        ELSE Min({i \in open : \A j \in open : Len(cand[i]) <= Len(cand[j])})

\* Mutant of clone: { grid, cand }, the arrays and Sets of the caller.
cloneAlias(grid, cand) == [grid |-> grid, cand |-> cand, shared |-> TRUE]

\* clone: grid.slice() and a new Set per cell, filled in the iteration order
\* of the old one; shared is FALSE because the branch state shares no array
\* or Set with the state it was cloned from.
clone(grid, cand) == [grid |-> grid, cand |-> cand, shared |-> FALSE]

\* Mutant of slice: grid = gridInput, the caller's array itself.
sliceAlias(arr) == [arr |-> arr, shared |-> TRUE]

\* gridInput.slice(): a new array with the caller's elements.
slice(arr) == [arr |-> arr, shared |-> FALSE]

-----------------------------------------------------------------------------
(* Step events and assignment *)

\* step(payload): hands the payload to onStep when onStep is a function.
step(sink, ev, payload) == IF sink THEN Append(ev, payload) ELSE ev

\* Mutant of assignPeers: cand[p].delete(val) is missing, the peers keep val.
assignPeersKeepVal(g1, c1, P, val, ev1, emptied) ==
    [grid |-> g1, cand |-> c1, ev |-> ev1, ok |-> emptied = {}]

\* assign, lines 137-141: val is deleted from the candidates of the unresolved
\* peers in PEERS order, up to and including the first one left empty
\* (emptied holds the positions in P of the peers that val would empty).
assignPeers(g1, c1, P, val, ev1, emptied) ==
    [grid |-> g1,
     cand |-> [p \in Cells |->
                 IF g1[p] = 0
                    /\ \E k \in 1 .. (IF emptied = {} THEN Len(P) ELSE Min(emptied)) : P[k] = p
                 THEN delete(c1[p], val)
                 ELSE c1[p]],
     ev |-> ev1,
     ok |-> emptied = {}]

\* Mutant of assignCell: the test for an emptied candidate set is missing, so
\* assign always returns true.
assignCellNoCheck(g1, c1, P, val, ev1) == assignPeers(g1, c1, P, val, ev1, {})

\* Mutant of assignCell: a peer left with one candidate already counts as
\* emptied (size === 1 instead of size === 0).
assignCellOffByOne(g1, c1, P, val, ev1) ==
    assignPeers(g1, c1, P, val, ev1,
                {k \in 1 .. Len(P) : g1[P[k]] = 0 /\ has(c1[P[k]], val)
                                      /\ Len(c1[P[k]]) <= 2})

\* assign, lines 133-135, then the peer loop.
assignCell(g1, c1, P, val, ev1) ==
    assignPeers(g1, c1, P, val, ev1,
                {k \in 1 .. Len(P) : g1[P[k]] = 0 /\ c1[P[k]] = <<val>>})

\* Mutant of assign: the emptied-peer test only takes effect when a sink is
\* present, as if it were part of the step callback.
assignCheckedBySink(grid, cand, i, val, reason, sink, ev) ==
    IF sink
    THEN assignCell([grid EXCEPT ![i] = val], [cand EXCEPT ![i] = <<val>>], PEERS[i], val,
                    step(sink, ev, [type |-> "assign", i |-> i, val |-> val,
                                    reason |-> reason]))
    ELSE assignCellNoCheck([grid EXCEPT ![i] = val], [cand EXCEPT ![i] = <<val>>], PEERS[i],
                           val, ev)

\* Mutant of assign: line 134, cand[i] = new Set([val]), is missing.
assignKeepsCandidates(grid, cand, i, val, reason, sink, ev) ==
    assignCell([grid EXCEPT ![i] = val], cand, PEERS[i], val,
               step(sink, ev, [type |-> "assign", i |-> i, val |-> val, reason |-> reason]))

\* assign(grid, cand, i, val, reason): the (grid, cand) it leaves, the events
\* so far, and its return value (ok).
assign(grid, cand, i, val, reason, sink, ev) ==
    assignCell([grid EXCEPT ![i] = val], [cand EXCEPT ![i] = <<val>>], PEERS[i], val,
               step(sink, ev, [type |-> "assign", i |-> i, val |-> val, reason |-> reason]))

-----------------------------------------------------------------------------
(* Propagator.  A propagation state is [grid, cand, ev, ok, changed]; ok is  *)
(* FALSE once an assign has returned false, and every loop then returns.    *)

\* The result a of an assign inside propagate: changed = true after a
\* successful assign.
withChanged(a, was) ==
    [grid |-> a.grid, cand |-> a.cand, ev |-> a.ev, ok |-> a.ok, changed |-> a.ok \/ was]

\* Mutant of assigned: the return value of assign is ignored.
assignedUnchecked(st, i, val, reason, sink) ==
    withChanged([assign(st.grid, st.cand, i, val, reason, sink, st.ev) EXCEPT !.ok = TRUE],
                st.changed)

assigned(st, i, val, reason, sink) ==
    withChanged(assign(st.grid, st.cand, i, val, reason, sink, st.ev), st.changed)

\* The next cell from i on that passes the tests of lines 153-154 (resolved
\* cells and cells without exactly one candidate are stepped over); 81 when
\* the loop runs out.
nextSingle(st, i) ==
    Min({j \in i .. 80 : st.grid[j] = 0 /\ Len(st.cand[j]) = 1} \cup {81})

RECURSIVE singleCandidatePass(_, _, _)
\* Lines 152-159: cells i .. 80 in order.  The cells up to the next one that
\* is assigned leave the state as it is.
singleCandidatePass(st, i, sink) ==
    IF i > 80 \/ ~st.ok THEN st
    ELSE IF st.grid[i] = 0 /\ Len(st.cand[i]) = 1
         THEN singleCandidatePass(
                  assigned(st, i, Head(st.cand[i]), "single-candidate", sink),
                  i + 1, sink)
         ELSE singleCandidatePass(st, nextSingle(st, i + 1), sink)

\* pos of lines 163-167: for the n-th digit of DIGITS, the unresolved cells
\* of the unit that have it as a candidate, in unit order, computed once per
\* unit before its digit loop.
unitPos(grid, cand, unit) ==
    [n \in 1 .. Len(DIGITS) |->
        SelectSeq(unit, LAMBDA i : grid[i] = 0 /\ has(cand[i], DIGITS[n]))]

RECURSIVE onlyPositionDigits(_, _, _, _)
\* Lines 168-174: the digits of DIGITS from the n-th on, for one unit, with
\* the pos map built for that unit.
onlyPositionDigits(st, pos, n, sink) ==
    IF n > Len(DIGITS) \/ ~st.ok THEN st
    ELSE IF Len(pos[n]) = 1
         THEN onlyPositionDigits(
                  assigned(st, pos[n][1], DIGITS[n], "only-position", sink),
                  pos, n + 1, sink)
         ELSE onlyPositionDigits(st, pos, n + 1, sink)

\* Mutant of onlyPositionPass: the only-position pass is missing.
onlyPositionPassSkipped(st, u, sink) == st

RECURSIVE onlyPositionPass(_, _, _)
\* Lines 162-175: units u .. 27 in order.
onlyPositionPass(st, u, sink) ==
    IF u > 27 \/ ~st.ok THEN st
    ELSE onlyPositionPass(
             onlyPositionDigits(st, unitPos(st.grid, st.cand, UNITS[u]), 1, sink),
             u + 1, sink)

RECURSIVE propagateLoop(_, _)
\* Mutant of propagateAgain: the loop is left after its first iteration.
propagateOnce(st, sink) == st

\* Line 177: leave the loop when nothing changed (or an assign returned false).
propagateAgain(st, sink) == IF st.ok /\ st.changed THEN propagateLoop(st, sink) ELSE st

\* One iteration of while (true): changed = false, the two passes, the test.
propagateLoop(st, sink) ==
    propagateAgain(
        onlyPositionPass(singleCandidatePass([st EXCEPT !.changed = FALSE], 0, sink), 1, sink),
        sink)

\* propagate(grid, cand): the state it leaves, the events so far, and its
\* return value (ok).
propagate(grid, cand, sink, ev) ==
    propagateLoop([grid |-> grid, cand |-> cand, ev |-> ev, ok |-> TRUE, changed |-> FALSE],
                  sink)

-----------------------------------------------------------------------------
(* coreSolve as a state machine *)

NoResult == [returned |-> FALSE]

(* null as dfs returns it: the grid on no cells, which is no 81-cell grid *)
Null == [i \in {} |-> 0]

NoTop == [stage |-> "none"]

Returned(r) == "ok" \in DOMAIN r

\* A dfs activation: its (grid, cand), and once it has focused a cell, that
\* cell and the values of [...cand[cell]] not yet tried (the head is the
\* value being tried while a recursive call is running).
Frame(grid, cand) ==
    [grid |-> grid, cand |-> cand, at |-> "enter", cell |-> -1, vals |-> << >>]

Top(s) == s[Len(s)]

SetTop(s, f) == [s EXCEPT ![Len(s)] = f]

Pop(s) == SubSeq(s, 1, Len(s) - 1)

\* The running coreSolve returns r to the caller of solve / solveWithSteps.
Finish(r) ==
    /\ pc' = "idle"
    /\ CASE phase = "solve" -> sres' = r /\ phase' = "steps" /\ UNCHANGED <<wres, again>>
         [] phase = "steps" -> wres' = r /\ phase' = "end" /\ UNCHANGED <<sres, again>>
         [] phase = "solve2" -> /\ again' = [again EXCEPT !.solve = r]
                               /\ phase' = "steps2"
                               /\ UNCHANGED <<sres, wres>>
         [] OTHER -> /\ again' = [again EXCEPT !.steps = r]
                     /\ phase' = "done"
                     /\ UNCHANGED <<sres, wres>>

\* Solver.validate(grid), lines 61-73 and 227.
CallValidate ==
    /\ phase = "validate"
    /\ vres' = validate(gridInput)
    /\ phase' = "solve"
    /\ UNCHANGED <<page, scan, gridInput, pc, onStep, top, stack, events, sres, wres, again, ret>>

\* coreSolve, lines 182-183 and the call of dfs on line 221: p is what the
\* first propagate left.
entryPropagated(s, p) ==
    /\ top' = [stage |-> "propagate", grid |-> p.grid, cand |-> p.cand, ok |-> p.ok]
    /\ gridInput' = IF s.shared THEN p.grid ELSE gridInput
    /\ events' = p.ev
    /\ IF ~p.ok
       THEN Finish([ok |-> FALSE, error |-> "Unsolvable puzzle."]) /\ stack' = << >>
       ELSE IF solved(p.grid)
       THEN Finish([ok |-> TRUE, grid |-> p.grid]) /\ stack' = << >>
       ELSE /\ pc' = "dfs"
            /\ stack' = <<Frame(p.grid, p.cand)>>
            /\ UNCHANGED <<phase, sres, wres, again>>

\* coreSolve, lines 125-126: b is what buildCandidates returned.
entryBuilt(sink, s, b) ==
    IF ~b.ok
    THEN /\ Finish([ok |-> FALSE, error |-> "Invalid puzzle."])
         /\ top' = [stage |-> "buildCandidates", grid |-> s.arr, cand |-> NoCand]
         /\ events' = << >>
         /\ UNCHANGED <<page, scan, gridInput, stack>>
    ELSE entryPropagated(s, propagate(s.arr, b.cand, sink, << >>))

\* Mutant of entryValidated: the validate guard of lines 122-123 is missing.
entryNotValidated(sink, s, v) == entryBuilt(sink, s, buildCandidates(s.arr))

\* coreSolve, lines 122-123: v is what validate(grid) returned.
entryValidated(sink, s, v) ==
    IF ~v.ok
    THEN /\ Finish([ok |-> FALSE, error |-> "Conflicts found.", conflicts |-> v.conflicts])
         /\ top' = [stage |-> "validate", grid |-> s.arr, cand |-> NoCand]
         /\ events' = << >>
         /\ UNCHANGED <<page, scan, gridInput, stack>>
    ELSE entryBuilt(sink, s, buildCandidates(s.arr))

\* The array the next call of the session is given.
Argument == IF phase \in {"solve2", "steps2"} THEN again.grid ELSE gridInput

\* coreSolve(gridInput, onStep) up to its first return or its call of dfs.
coreSolve(sink) ==
    /\ pc = "idle"
    /\ onStep' = sink
    /\ ret' = Null
    /\ vres' = vres
    /\ UNCHANGED <<page, scan>>
    /\ entryValidated(sink, slice(Argument), validate(slice(Argument).arr))

\* solve: (g) => coreSolve(g, null)
CallSolve == phase = "solve" /\ coreSolve(FALSE)

\* solveWithSteps: (g, onStep) => coreSolve(g, onStep)
CallSolveWithSteps == phase = "steps" /\ coreSolve(TRUE)

\* The caller takes the grid solve returned as the puzzle of its next calls
\* (the page shows the solution in the cells that getGrid reads).
Resubmit ==
    /\ phase = "end"
    /\ sres.ok
    /\ again' = [grid |-> sres.grid, solve |-> NoResult, steps |-> NoResult]
    /\ phase' = "solve2"
    /\ UNCHANGED <<page, scan, gridInput, pc, onStep, top, stack, events, vres, sres, wres, ret>>

\* solve on the grid handed back.
CallSolveAgain == phase = "solve2" /\ coreSolve(FALSE)

\* solveWithSteps on the grid handed back, with a sink of its own.
CallSolveWithStepsAgain == phase = "steps2" /\ coreSolve(TRUE)

\* dfs, lines 187-192: the activation on top of the stack starts.
DfsEnter ==
    /\ pc = "dfs"
    /\ Top(stack).at = "enter"
    /\ LET f == Top(stack)
           cell == pickMRV(f.grid, f.cand)
       IN  IF solved(f.grid)
           THEN pc' = "return" /\ ret' = f.grid /\ UNCHANGED <<stack, events>>
           ELSE IF cell = -1
           THEN pc' = "return" /\ ret' = Null /\ UNCHANGED <<stack, events>>
           ELSE /\ events' = step(onStep, events, [type |-> "focus", i |-> cell])
                /\ stack' = SetTop(stack, [f EXCEPT !.at = "loop", !.cell = cell,
                                                     !.vals = f.cand[cell]])
                /\ UNCHANGED <<pc, ret>>
    /\ UNCHANGED <<page, scan, gridInput, phase, onStep, top, vres, sres, wres, again>>

\* Lines 195-205 for the first value of f.vals on the branch state s: the
\* guess event, assign, and propagate when assign returned true.
afterGuess(a, sink) ==
    IF a.ok THEN propagate(a.grid, a.cand, sink, a.ev) ELSE withChanged(a, FALSE)

\* Mutant of trial: the assign of the guessed value is not reported to onStep.
trialSilentAssign(f, s, sink, ev) ==
    afterGuess(assign(s.grid, s.cand, f.cell, Head(f.vals), "guess", FALSE,
                      step(sink, ev, [type |-> "guess", i |-> f.cell, val |-> Head(f.vals)])),
               sink)

trial(f, s, sink, ev) ==
    afterGuess(assign(s.grid, s.cand, f.cell, Head(f.vals), "guess", sink,
                      step(sink, ev, [type |-> "guess", i |-> f.cell, val |-> Head(f.vals)])),
               sink)

\* Mutant of undo: the unassign event is forgotten.
undoBacktrackOnly(sink, ev, cell, val) ==
    step(sink, ev, [type |-> "backtrack", i |-> cell, val |-> val])

\* The two events of lines 200-201, 206-207 and 214-215.
undo(sink, ev, cell, val) ==
    step(sink, step(sink, ev, [type |-> "backtrack", i |-> cell, val |-> val]),
         [type |-> "unassign", i |-> cell])

\* The for-of loop of line 194 moves on to the value after the one tried.
nextValue(f) == [f EXCEPT !.vals = Tail(@)]

\* What the activation f keeps of a branch s: nothing, as s is a clone.
afterBranch(f, s, r) == IF s.shared THEN [f EXCEPT !.grid = r.grid, !.cand = r.cand] ELSE f

\* Mutant of DfsBranch: line 211 calls dfs on the caller's own grid and
\* candidates instead of the branch state's.
DfsBranchOnCallerState(f, s, r) ==
    IF ~r.ok
    THEN /\ events' = undo(onStep, r.ev, f.cell, Head(f.vals))
         /\ stack' = SetTop(stack, nextValue(afterBranch(f, s, r)))
    ELSE /\ events' = r.ev
         /\ stack' = Append(SetTop(stack, afterBranch(f, s, r)), Frame(f.grid, f.cand))

\* Lines 199-211 once the trial has left r: continue with the next value, or
\* call dfs on the branch state.
DfsBranch(f, s, r) ==
    IF ~r.ok
    THEN /\ events' = undo(onStep, r.ev, f.cell, Head(f.vals))
         /\ stack' = SetTop(stack, nextValue(afterBranch(f, s, r)))
    ELSE /\ events' = r.ev
         /\ stack' = Append(SetTop(stack, afterBranch(f, s, r)), Frame(r.grid, r.cand))

\* dfs, lines 194-211: one trial value, up to the recursive call.
DfsTry ==
    /\ pc = "dfs"
    /\ Top(stack).at = "loop"
    /\ Top(stack).vals # << >>
    /\ DfsBranch(Top(stack), clone(Top(stack).grid, Top(stack).cand),
                 trial(Top(stack), clone(Top(stack).grid, Top(stack).cand), onStep, events))
    /\ UNCHANGED <<page, scan, gridInput, phase, pc, onStep, top, vres, sres, wres, again, ret>>

\* Mutant of DfsExhausted: the loop over the values starts over instead of
\* dfs returning null.
DfsExhaustedStartsOver ==
    /\ pc = "dfs"
    /\ Top(stack).at = "loop"
    /\ Top(stack).vals = << >>
    /\ stack' = SetTop(stack, [Top(stack) EXCEPT !.vals = Top(stack).cand[Top(stack).cell]])
    /\ UNCHANGED <<page, scan, gridInput, phase, pc, onStep, top, events, vres, sres, wres, again, ret>>

\* dfs, line 218: every value of the focused cell has been tried.
DfsExhausted ==
    /\ pc = "dfs"
    /\ Top(stack).at = "loop"
    /\ Top(stack).vals = << >>
    /\ pc' = "return"
    /\ ret' = Null
    /\ UNCHANGED <<page, scan, gridInput, phase, onStep, top, stack, events, vres, sres, wres, again>>

\* Mutant of searchResult: { ok: true, grid } instead of { ok: true, grid: out },
\* coreSolve's own grid as the first propagation left it.
searchResultOwnGrid(out) ==
    IF out = Null THEN [ok |-> FALSE, error |-> "No solution found."]
    ELSE [ok |-> TRUE, grid |-> top.grid]

\* Lines 222-223: what coreSolve returns when dfs has returned out.
searchResult(out) ==
    IF out = Null THEN [ok |-> FALSE, error |-> "No solution found."]
    ELSE [ok |-> TRUE, grid |-> out]

\* Mutant of DfsReturn: line 212, if (res) return res, is missing, so a dfs
\* that called a successful dfs goes on as after a failed one.
DfsReturnDropsResult ==
    /\ pc = "return"
    /\ stack' = IF Len(stack) > 1
                THEN SetTop(Pop(stack), nextValue(Top(Pop(stack))))
                ELSE Pop(stack)
    /\ IF Len(stack) = 1
       THEN /\ Finish(searchResult(ret))
            /\ UNCHANGED <<events, ret>>
       ELSE /\ events' = undo(onStep, events, Top(Pop(stack)).cell, Head(Top(Pop(stack)).vals))
            /\ pc' = "dfs"
            /\ ret' = Null
            /\ UNCHANGED <<phase, sres, wres, again>>
    /\ UNCHANGED <<page, scan, gridInput, onStep, top, vres>>

\* The activation on top of the stack returns ret: to the dfs that called it
\* (lines 211-215), or to coreSolve (lines 221-223).
DfsReturn ==
    /\ pc = "return"
    /\ stack' = IF Len(stack) > 1 /\ ret = Null
                THEN SetTop(Pop(stack), nextValue(Top(Pop(stack))))
                ELSE Pop(stack)
    /\ IF Len(stack) = 1
       THEN /\ Finish(searchResult(ret))
            /\ UNCHANGED <<events, ret>>
       ELSE IF ret = Null
       THEN /\ events' = undo(onStep, events, Top(Pop(stack)).cell, Head(Top(Pop(stack)).vals))
            /\ pc' = "dfs"
            /\ UNCHANGED <<phase, sres, wres, again, ret>>
       ELSE UNCHANGED <<phase, pc, sres, wres, again, events, ret>>
    /\ UNCHANGED <<page, scan, gridInput, onStep, top, vres>>

-----------------------------------------------------------------------------
(* The board of the page, src/unnamed/part_000.  The value of an input      *)
(* element is held as the sequence of its characters.                       *)

DigitText == <<"1", "2", "3", "4", "5", "6", "7", "8", "9">>

\* String(v) for a digit v.
String(v) == <<DigitText[v]>>

\* Number(t) for the text of one digit.
Number(t) == CHOOSE d \in 1 .. 9 : DigitText[d] = t[1]

\* getGrid, lines 278-285: the board read into a numeric array, 0 for empty.
getGrid(value) == [i \in Cells |-> IF value[i] # << >> THEN Number(value[i]) ELSE 0]

\* fillGrid, lines 288-292: the input values written from a numeric grid.
fillGrid(grid) == [i \in Cells |-> IF grid[i] # 0 THEN String(grid[i]) ELSE << >>]

\* The snapshot of the givens that the Solve click takes, lines 59-60.
snapshotGivens(grid) == [i \in Cells |-> grid[i] # 0]

\* Mutant of animateStep: an assign is shown only in a cell that shows
\* nothing yet.
animateStepKeepsShown(value, given, s) ==
    CASE s.type = "assign" ->
             IF value[s.i] = << >> THEN [value EXCEPT ![s.i] = String(s.val)] ELSE value
      [] s.type = "unassign" -> IF ~given[s.i] THEN [value EXCEPT ![s.i] = << >>] ELSE value
      [] OTHER -> value

\* One step of the animation, lines 359-368, on the input values: an assign
\* shows the value, an unassign clears the cell unless it is a given.
animateStep(value, given, s) ==
    CASE s.type = "assign" -> [value EXCEPT ![s.i] = String(s.val)]
      [] s.type = "unassign" -> IF ~given[s.i] THEN [value EXCEPT ![s.i] = << >>] ELSE value
      [] OTHER -> value

RECURSIVE animate(_, _, _, _, _)
\* The loop of tick, lines 350-372, over steps[k .. n - 1] (k and n count
\* from 0 as in the source).
animate(value, given, steps, k, n) ==
    IF k >= n THEN value
    ELSE animate(animateStep(value, given, steps[k + 1]), given, steps, k + 1, n)

\* The final paint, lines 383-385.
finalPaint(solvedGrid) ==
    [i \in Cells |-> IF solvedGrid[i] # 0 THEN String(solvedGrid[i]) ELSE << >>]

\* The script holds the DOMContentLoaded listener twice, lines 18-399 and
\* 404-721, with the same code.  Each run of it has its own cells and given
\* array and adds its own listeners to the solve button, the clear button and
\* the file input, which the two share.  buildBoard of the second run (lines
\* 511-513) empties the board element, so the cells of the first are no
\* longer in the document: the user sees and types into those of the second.
\* The line numbers given below are those of the first copy.
Copies == {1, 2}

Shown == 2

\* The page after both listeners of DOMContentLoaded have run: two empty
\* boards, nothing given, the controls enabled, no timer pending, no listener
\* inside solveWithSteps (solving is the copy whose listener is), no
\* animation running, no file being read, and the crop dialog of src/ocr.js
\* hidden with its Use button enabled.  acts counts the Solve clicks and the
\* file choices of the user so far; the script keeps no such count.
BlankPage ==
    [value |-> [c \in Copies |-> [i \in Cells |-> << >>]],
     given |-> [c \in Copies |-> [i \in Cells |-> FALSE]],
     btnText |-> "Solve",
     disabled |-> FALSE,
     timers |-> << >>,
     solving |-> 0,
     owed |-> FALSE,
     anims |-> << >>,
     reads |-> << >>,
     modal |-> FALSE,
     useOff |-> FALSE,
     acts |-> 0]

\* setBtnText, line 144.
setBtnText(p, t) == [p EXCEPT !.btnText = t]

\* disableAll, lines 137-141: the solve button, the clear button and the file
\* input; the inputs of the cells are not among them.
disableAll(p, dis) == [p EXCEPT !.disabled = dis]

\* flashButton, lines 147-151: the text is shown, and a timer is set that
\* will put back the text the button had (timers holds, oldest first, the
\* text each pending timer restores; their delays are equal).
flashButton(p, text) ==
    [p EXCEPT !.btnText = text, !.timers = Append(@, p.btnText)]

\* onInput of copy c, lines 261-271, after the browser or onKeyDown has put a
\* text in the input of cell i: only digits 1-9 are kept, of them the first,
\* and the cell is given iff its input is not empty.
digitsOnly(t) == SelectSeq(t, LAMBDA ch : \E d \in 1 .. 9 : DigitText[d] = ch)

firstOf(v) == IF Len(v) > 1 THEN <<v[1]>> ELSE v

onInput(p, c, i) ==
    [p EXCEPT !.value[c][i] = firstOf(digitsOnly(@)),
              !.given[c][i] = firstOf(digitsOnly(p.value[c][i])) # << >>]

\* The keys onKeyDown moves the focus on, lines 223-233.
MoveKeys == {"ArrowLeft", "ArrowRight", "ArrowUp", "ArrowDown", "Tab"}

\* onKeyDown of copy c, lines 221-249: the arrow keys and Tab move the focus
\* and return; Backspace and Delete empty the input and a key 1-9 replaces
\* its text, both then run onInput; any other key is left to the browser.
onKeyDown(p, c, i, key) ==
    IF key \in MoveKeys THEN p
    ELSE IF key \in {"Backspace", "Delete"}
    THEN onInput([p EXCEPT !.value[c][i] = << >>], c, i)
    ELSE IF \E d \in 1 .. 9 : DigitText[d] = key
    THEN onInput([p EXCEPT !.value[c][i] = <<key>>], c, i)
    ELSE p

\* The result of a call that threw.
Thrown == [thrown |-> TRUE]

\* The characters \s matches, line 311.  A character that has no escape in a
\* TLA+ string is written as its code point: "U+000B" is the vertical tab.
WhiteSpace ==
    {" ", "\t", "\n", "\f", "\r", "U+000B", "U+00A0", "U+1680", "U+2000", "U+2001",
     "U+2002", "U+2003", "U+2004", "U+2005", "U+2006", "U+2007", "U+2008", "U+2009",
     "U+200A", "U+2028", "U+2029", "U+202F", "U+205F", "U+3000", "U+FEFF"}

\* string81ToGrid, lines 310-320, on a text held as its characters.
string81ToGrid(s) ==
    LET t == SelectSeq(s, LAMBDA ch : ch \notin WhiteSpace)
    IN  IF Len(t) # 81 THEN Thrown
        ELSE IF \E n \in 1 .. 81 : t[n] # "0" /\ \A d \in 1 .. 9 : DigitText[d] # t[n]
        THEN Thrown
        ELSE [thrown |-> FALSE,
              grid |-> [i \in Cells |-> IF t[i + 1] = "0" THEN 0 ELSE Number(<<t[i + 1]>>)]]

\* The load listener of copy c from fillGrid on, lines 105-123: the grid is
\* written to the inputs, the givens are taken from the board, and a board
\* with conflicts flashes the button.
loadedGivens(p, c) == [p EXCEPT !.given[c] = snapshotGivens(getGrid(p.value[c]))]

loaded(p, c, grid) ==
    IF validate(getGrid(fillGrid(grid))).ok
    THEN loadedGivens([p EXCEPT !.value[c] = fillGrid(grid)], c)
    ELSE flashButton(loadedGivens([p EXCEPT !.value[c] = fillGrid(grid)], c), "Fix red cells")

\* The finally block of the load listener, lines 128-133.
loadFinally(p) == disableAll(setBtnText(p, "Solve"), FALSE)

\* The load listener of copy c after its await, lines 105-133, with r what
\* the await and string81ToGrid gave: a grid, or an exception.
afterLoad(p, c, r) ==
    loadFinally(IF r.thrown THEN flashButton(p, "Bad file") ELSE loaded(p, c, r.grid))

\* Sequence s without its element n.
RemoveAt(s, n) == SubSeq(s, 1, n - 1) \o SubSeq(s, n + 1, Len(s))

-----------------------------------------------------------------------------
(* sanitizeConflicts of src/ocr.js (lines 1063-1081, the definition in      *)
(* force; the one at lines 422-440 differs in the number of rounds).        *)

\* The number of rounds of the loop, line 1067.
SafetyRounds == 60

\* The units cell c is in, each with the place of c in it.
placesOf(c) ==
    {<<rowOf(c) + 1, colOf(c) + 1>>,
     <<colOf(c) + 10, rowOf(c) + 1>>,
     <<boxOf(c) + 19, 3 * (rowOf(c) % 3) + (colOf(c) % 3) + 1>>}

\* When validate adds the cell at place k of unit u to conflicts, counting
\* the add calls of line 68 by unit, place and order: as the later holder of
\* its digit at its own place, as the first holder at each later place that
\* holds the digit.
addsIn(grid, u, k) ==
    IF grid[UNITS[u][k]] = 0 THEN {}
    ELSE IF \E j \in 1 .. (k - 1) : grid[UNITS[u][j]] = grid[UNITS[u][k]]
    THEN {2 * (9 * (u - 1) + k)}
    ELSE {2 * (9 * (u - 1) + j) + 1 : j \in {j \in (k + 1) .. 9 :
                                                grid[UNITS[u][j]] = grid[UNITS[u][k]]}}

\* The place of a conflicted cell c in the iteration order of validate's
\* conflicts Set: the first add of c.
addedAt(grid, c) == Min(UNION {addsIn(grid, w[1], w[2]) : w \in placesOf(c)})

\* conflicted.sort(...)[0], lines 1075-1076: the conflicted cell of lowest
\* confidence, the first of them in the order of the Set (the sort is
\* stable).
firstAdded(g, lowest) ==
    CHOOSE c \in lowest : \A d \in lowest : addedAt(g, c) <= addedAt(g, d)

kill(g, conf, conflicts) ==
    firstAdded(g, {c \in conflicts : \A d \in conflicts : conf[c] <= conf[d]})

\* g and conf after lines 1077-1078 with cell c chosen.
killed(g, conf, c) == [grid |-> [g EXCEPT ![c] = 0], conf |-> [conf EXCEPT ![c] = -1]]

RECURSIVE sanitizeLoop(_, _)
\* One round of the loop, lines 1067-1078, with v = validate(st.grid).
sanitizeRound(st, safety, v) ==
    IF safety >= SafetyRounds \/ v.ok THEN st
    ELSE sanitizeLoop(killed(st.grid, st.conf, kill(st.grid, st.conf, v.conflicts)),
                      safety + 1)

sanitizeLoop(st, safety) == sanitizeRound(st, safety, validate(st.grid))

\* sanitizeConflicts(grid, conf): the grid returned, the confidences as the
\* call leaves them, and the caller's grid array after the call.
sanitizeResult(copy, out) ==
    [grid |-> out.grid, conf |-> out.conf, arg |-> IF copy.shared THEN out.grid ELSE copy.arr]

sanitizeConflicts(grid, conf) ==
    sanitizeResult(slice(grid), sanitizeLoop([grid |-> slice(grid).arr, conf |-> conf], 0))

\* No reader has run.
NoScan == [stage |-> "none"]

-----------------------------------------------------------------------------
(* The grids a session starts from *)

\* Bounds of the session inputs: the cells 0 .. MaxPokeCell of a base grid
\* may be overwritten.
MaxPokeCell == 5

FromRows(q) == [i \in Cells |-> q[i + 1]]

Poke(grid, c, v) == [grid EXCEPT ![c] = v]

ZeroGrid == [i \in Cells |-> 0]

\* A complete valid grid.
Solution ==
    FromRows(<<1, 2, 3, 4, 5, 6, 7, 8, 9,
               4, 5, 6, 7, 8, 9, 1, 2, 3,
               7, 8, 9, 1, 2, 3, 4, 5, 6,
               2, 3, 1, 6, 7, 4, 8, 9, 5,
               8, 7, 5, 9, 1, 2, 3, 6, 4,
               6, 9, 4, 5, 3, 8, 2, 1, 7,
               3, 1, 7, 2, 6, 5, 9, 4, 8,
               5, 4, 2, 8, 9, 7, 6, 3, 1,
               9, 6, 8, 3, 4, 1, 5, 7, 2>>)

\* 28 clues of Solution: propagation stalls on it and the search has to guess.
Puzzle ==
    FromRows(<<0, 0, 0, 0, 0, 6, 0, 0, 0,
               4, 0, 0, 0, 0, 9, 0, 0, 0,
               7, 0, 0, 0, 2, 3, 4, 5, 0,
               0, 3, 0, 0, 0, 0, 0, 0, 0,
               0, 0, 0, 9, 0, 2, 0, 0, 0,
               0, 9, 0, 0, 3, 8, 2, 0, 7,
               3, 0, 0, 0, 0, 0, 9, 4, 0,
               0, 0, 2, 8, 9, 7, 6, 3, 0,
               9, 0, 0, 0, 0, 1, 0, 0, 2>>)

\* Puzzle with a second 6 in row 0.
Clash == Poke(Puzzle, 0, 6)

\* 5 at cells 0 and 1 of an otherwise empty grid.
TwoFives == Poke(Poke(ZeroGrid, 0, 5), 1, 5)

\* 19 clues: the search reaches a cell with three candidates of which the
\* first two fail.
ThreeWay ==
    FromRows(<<0, 2, 0, 0, 5, 0, 7, 0, 0,
               0, 5, 6, 0, 0, 9, 0, 0, 0,
               0, 0, 0, 0, 0, 0, 0, 0, 0,
               0, 0, 0, 6, 0, 4, 0, 9, 0,
               0, 0, 5, 9, 0, 0, 0, 0, 0,
               0, 0, 0, 0, 0, 8, 0, 0, 0,
               0, 0, 0, 0, 0, 0, 0, 0, 0,
               0, 0, 0, 8, 0, 0, 0, 3, 0,
               0, 6, 8, 0, 0, 1, 0, 0, 0>>)

InputGrids ==
    {Poke(b, c, v) : b \in {Puzzle, Clash, Solution}, c \in 0 .. MaxPokeCell, v \in 0 .. 9}
        \cup {ZeroGrid, TwoFives, ThreeWay}

Init ==
    /\ gridInput \in InputGrids
    /\ phase = "validate"
    /\ pc = "idle"
    /\ onStep = FALSE
    /\ top = NoTop
    /\ stack = << >>
    /\ events = << >>
    /\ vres = NoResult
    /\ sres = NoResult
    /\ wres = NoResult
    /\ again = NoResult
    /\ ret = Null
    /\ page = BlankPage
    /\ scan = NoScan

Next ==
    \/ CallValidate
    \/ CallSolve
    \/ CallSolveWithSteps
    \/ Resubmit
    \/ CallSolveAgain
    \/ CallSolveWithStepsAgain
    \/ DfsEnter
    \/ DfsTry
    \/ DfsExhausted
    \/ DfsReturn

Spec == Init /\ [][Next]_vars

\* The guards of the actions of Next: the session has a call to make, or the
\* running call has a step to take.
CanStep ==
    \/ phase = "validate"
    \/ pc = "idle" /\ phase \in {"solve", "steps", "solve2", "steps2"}
    \/ phase = "end" /\ sres.ok
    \/ pc = "dfs" /\ Top(stack).at \in {"enter", "loop"}
    \/ pc = "return"

\* The calls are synchronous and run to completion: a step that can be taken
\* is taken.  This is weak fairness of Next, WF_vars(Next), with the
\* enabling condition of Next written out as CanStep.
LiveSpec == Spec /\ ([]<>(~CanStep) \/ []<><<Next>>_vars)

-----------------------------------------------------------------------------
(* The page as a state machine.  A listener runs to its end or to its next  *)
(* await; the listeners of one event run one after the other, the first     *)
(* copy's before the second's, with no other event between them.  While     *)
(* solveWithSteps runs (phase "steps", and "end" until solveAndAnimate has  *)
(* taken the result) no other listener or timer runs.  gridInput is the     *)
(* array of the listener inside solveAndAnimate, events its steps array and *)
(* wres its res.  page.anims holds the animations that are running, each    *)
(* with its copy, its steps, its k and the grid of its res; page.reads      *)
(* holds the change listeners that are at their await, each with its copy,  *)
(* its file and how far its await has come: a listener is resumed by its    *)
(* own promise, in a task of its own.  Nothing in                           *)
(* the script keeps Solve from being clicked while an animation runs (the   *)
(* end of another animation or of a load enables the button), or a file     *)
(* from being chosen while a text file is read.                             *)

\* A listener flashes the button only when fewer than MaxTimers timers would
\* be pending after it.
MaxTimers == 2

\* The user clicks Solve or chooses a file at most MaxActs times (page.acts
\* counts them).
MaxActs == 2

MaxTypeCell == 0

\* Solve is clicked on boards with at least MinClues cells filled.
MinClues == 40

\* A tick shows MinSlice to MaxSlice steps in its time slice.
MinSlice == 22

MaxSlice == 23

\* Solution without cells 0, 40 and 80: propagation fills them.
Easy == Poke(Poke(Poke(Solution, 0, 0), 40, 0), 80, 0)

\* 51 clues of Solution: the first guess of the search fails.
Detour ==
    FromRows(<<0, 2, 3, 4, 5, 6, 0, 8, 9,
               4, 5, 6, 0, 8, 9, 1, 0, 0,
               7, 0, 9, 1, 2, 0, 4, 5, 6,
               2, 3, 1, 6, 0, 0, 0, 9, 5,
               0, 7, 0, 0, 0, 2, 3, 0, 4,
               0, 0, 4, 5, 3, 0, 2, 0, 0,
               0, 1, 7, 2, 6, 5, 9, 0, 8,
               5, 4, 2, 0, 0, 0, 6, 3, 0,
               0, 6, 8, 3, 4, 0, 5, 0, 0>>)

\* Without conflicts, but cell 6 has no candidate left; once cell 0 is
\* emptied, propagation fills the board.
Blocked == Poke(Poke(Poke(Solution, 0, 7), 6, 0), 18, 0)

\* 45 clues without conflicts and without a solution: both values of the one
\* guess fail, and dfs returns null.
DeadEnd ==
    FromRows(<<1, 2, 3, 0, 5, 6, 7, 0, 0,
               4, 5, 6, 7, 0, 9, 1, 2, 3,
               0, 0, 0, 1, 0, 3, 4, 0, 0,
               0, 0, 1, 0, 7, 0, 0, 0, 0,
               0, 0, 5, 0, 1, 8, 0, 6, 4,
               6, 0, 0, 0, 3, 0, 2, 1, 7,
               3, 1, 0, 2, 0, 5, 0, 4, 0,
               5, 4, 0, 8, 9, 7, 6, 3, 1,
               0, 6, 0, 0, 0, 1, 0, 7, 0>>)

\* Solution with a second 1 in row 0.
Doubled == Poke(Solution, 1, 1)

\* The boards a text file has been loaded from when the page is first looked
\* at.
UiBoards == {Easy, Detour, Blocked, DeadEnd}

\* The characters of a text file that holds grid g, with the line end sep.
TextOf(g, sep) ==
    [n \in 1 .. 82 |-> IF n = 82 THEN sep
                       ELSE IF g[n - 1] = 0 THEN "0" ELSE DigitText[g[n - 1]]]

\* The files the user picks: the text of a board ending with a line feed or
\* with a form feed, a text that is too short, an image.
Files ==
    {[image |-> FALSE, text |-> TextOf(Doubled, "\f")],
     [image |-> FALSE, text |-> <<"1", "2", "3">>],
     [image |-> TRUE, text |-> << >>]}

\* What the reader makes of the cells of the image, with its confidences.
UiReads == {[grid |-> Doubled, conf |-> [i \in Cells |-> 60 + (i % 30)]]}

\* The keys pressed: a digit, Backspace, a key that moves the focus, a letter.
Keys == {"7", "Backspace", "ArrowLeft", "a"}

RawTexts == {<<"0">>}

\* The page with board b loaded from a text file into both copies (lines
\* 108-133 of each), and nothing going on.
Loaded(b) ==
    [BlankPage EXCEPT !.value = [c \in Copies |-> fillGrid(b)],
                      !.given = [c \in Copies |-> snapshotGivens(b)]]

UiInit ==
    /\ gridInput = ZeroGrid
    /\ phase = "page"
    /\ pc = "idle"
    /\ onStep = FALSE
    /\ top = NoTop
    /\ stack = << >>
    /\ events = << >>
    /\ vres = NoResult
    /\ sres = NoResult
    /\ wres = NoResult
    /\ again = NoResult
    /\ ret = Null
    /\ page \in {BlankPage} \cup {Loaded(b) : b \in UiBoards}
    /\ scan = NoScan

\* The locals of a Solve click listener and of its solveAndAnimate are
\* dropped.
Dropped ==
    /\ gridInput' = ZeroGrid
    /\ phase' = "page"
    /\ onStep' = FALSE
    /\ top' = NoTop
    /\ events' = << >>
    /\ wres' = NoResult
    /\ ret' = Null
    /\ UNCHANGED <<pc, stack, vres, sres, again, scan>>

\* solveAndAnimate calls solveWithSteps(grid, ...) with an empty steps array,
\* lines 329-330.
Called(grid) ==
    /\ gridInput' = grid
    /\ phase' = "steps"
    /\ onStep' = FALSE
    /\ top' = NoTop
    /\ events' = << >>
    /\ wres' = NoResult
    /\ ret' = Null
    /\ UNCHANGED <<pc, stack, vres, sres, again, scan>>

\* The Solve click listener of copy c, lines 53-71 and 325, up to its call
\* of solveWithSteps (solving is c then), or through its return on a board
\* with conflicts.
clicked(p, c) ==
    IF validate(getGrid(p.value[c])).ok
    THEN [setBtnText(disableAll(p, TRUE), "Solving...")
             EXCEPT !.given[c] = snapshotGivens(getGrid(p.value[c])), !.solving = c]
    ELSE [flashButton(p, "Fix red cells")
             EXCEPT !.given[c] = snapshotGivens(getGrid(p.value[c])), !.solving = 0]

\* Both listeners of the click have run to their await or to their end.
dispatched(p) == [p EXCEPT !.solving = 0, !.owed = FALSE]

\* The listener of the second copy is called on page p.
secondListener(p) ==
    IF clicked(p, 2).solving = 2
    THEN page' = clicked(p, 2) /\ Called(getGrid(p.value[2]))
    ELSE page' = dispatched(clicked(p, 2)) /\ Dropped

\* The listener of the first copy is called on page p.
firstListener(p) ==
    IF clicked(p, 1).solving = 1
    THEN page' = clicked(p, 1) /\ Called(getGrid(p.value[1]))
    ELSE secondListener(clicked(p, 1))

\* The listener of copy p.solving has reached its await with the page p: the
\* next listener of the click is called.
afterListener(p) ==
    IF p.solving = 1 THEN secondListener(p) ELSE page' = dispatched(p) /\ Dropped

\* The click event of the solve button.
ClickSolve ==
    /\ phase = "page"
    /\ ~page.disabled
    /\ Len(page.timers) + 2 <= MaxTimers
    /\ page.acts < MaxActs
    /\ \A c \in Copies : Cardinality({i \in Cells : page.value[c][i] # << >>}) >= MinClues
    /\ firstListener([page EXCEPT !.acts = @ + 1])

\* solveAndAnimate, lines 332-336, and disableAll(false) of line 73, which
\* runs when the listener is resumed: as soon as it has returned to the
\* browser, or, when the click was dispatched by a script, after the other
\* listener has reached its await (owed).
SolveFailed ==
    /\ phase = "end"
    /\ page.solving \in Copies
    /\ ~wres.ok
    /\ afterListener([disableAll(setBtnText(flashButton(page, "No solution"), "Solve"), FALSE)
                         EXCEPT !.owed = (page.solving = 1)])

\* An animation of copy c over steps, with the grid of res.
Animation(c, steps, grid) == [copy |-> c, steps |-> steps, k |-> 0, grid |-> grid]

\* solveAndAnimate, lines 338-378: the first tick is requested.  When the
\* first listener's disableAll(false) is still owed, it has run before this
\* listener's disableAll(true) or will run after it.
AnimationStarts ==
    /\ phase = "end"
    /\ page.solving \in Copies
    /\ wres.ok
    /\ \E dis \in IF page.owed THEN {TRUE, FALSE} ELSE {page.disabled} :
          afterListener([page EXCEPT
              !.anims = Append(@, Animation(page.solving, events, wres.grid)),
              !.disabled = dis])

\* The end of solveAndAnimate of animation a, lines 383-392, and
\* disableAll(false) of line 73.
painted(p, a) ==
    [disableAll(setBtnText(p, "Solve"), FALSE)
        EXCEPT !.value[p.anims[a].copy] = finalPaint(p.anims[a].grid),
               !.anims = RemoveAt(@, a)]

\* tick of animation a, lines 346-376, showing the steps k .. m - 1 in its
\* time slice; after the last step the promise is resolved and
\* solveAndAnimate ends.
tick(p, a, m) ==
    IF m < Len(p.anims[a].steps)
    THEN [p EXCEPT !.value[p.anims[a].copy] =
                       animate(@, p.given[p.anims[a].copy], p.anims[a].steps, p.anims[a].k, m),
                   !.anims[a].k = m]
    ELSE painted(p, a)

AnimationFrame ==
    /\ phase = "page"
    /\ \E a \in 1 .. Len(page.anims), n \in MinSlice .. MaxSlice :
          page' = tick(page, a, Min({page.anims[a].k + n, Len(page.anims[a].steps)}))
    /\ UNCHANGED <<gridInput, phase, pc, onStep, top, stack, events, vres, sres, wres, again,
                   ret, scan>>

\* A timer set by flashButton fires, line 150.
TimerFires ==
    /\ phase = "page"
    /\ page.timers # << >>
    /\ page' = [page EXCEPT !.btnText = Head(page.timers), !.timers = Tail(@)]
    /\ UNCHANGED <<gridInput, phase, pc, onStep, top, stack, events, vres, sres, wres, again,
                   ret, scan>>

\* The input event of a cell the user sees: the browser has put the text raw
\* in it.
InputEvent ==
    /\ phase = "page"
    /\ \E i \in 0 .. MaxTypeCell, raw \in RawTexts :
          page' = onInput([page EXCEPT !.value[Shown][i] = raw], Shown, i)
    /\ UNCHANGED <<gridInput, phase, pc, onStep, top, stack, events, vres, sres, wres, again,
                   ret, scan>>

\* The keydown event of a cell the user sees.
KeyDownEvent ==
    /\ phase = "page"
    /\ \E i \in 0 .. MaxTypeCell, key \in Keys : page' = onKeyDown(page, Shown, i, key)
    /\ UNCHANGED <<gridInput, phase, pc, onStep, top, stack, events, vres, sres, wres, again,
                   ret, scan>>

\* The Clear click listener of copy c, lines 78-86.
cleared(p, c) ==
    [p EXCEPT !.value[c] = [i \in Cells |-> << >>], !.given[c] = [i \in Cells |-> FALSE]]

\* The click event of the clear button: both listeners.
ClickClear ==
    /\ phase = "page"
    /\ ~page.disabled
    /\ page' = cleared(cleared(page, 1), 2)
    /\ UNCHANGED <<gridInput, phase, pc, onStep, top, stack, events, vres, sres, wres, again,
                   ret, scan>>

\* A change listener of copy c at its await on file f: on file.text() (stage
\* "text"), or on openCropAndRead, which waits for createImageBitmap
\* ("decoding"), then for a click in the crop dialog ("crop"), then for its
\* onUse to end ("reading"); settled means that its promise was rejected by
\* onCancel while its onUse was running.
Await(c, f) ==
    [copy |-> c, image |-> f.image, text |-> f.text,
     stage |-> IF f.image THEN "decoding" ELSE "text", settled |-> FALSE]

\* The change listener of copy c, lines 92-107, up to its await on file f.
chosen(p, c, f) ==
    [(IF f.image THEN disableAll(setBtnText(p, "Reading..."), TRUE) ELSE p)
        EXCEPT !.reads = Append(@, Await(c, f))]

\* The places in reads of the calls of openCropAndRead.
imagesIn(reads) == {n \in 1 .. Len(reads) : reads[n].image}

\* An image is chosen while at most MaxCalls - 2 calls of openCropAndRead are
\* waiting.
MaxCalls == 2

\* The change event of the file input: both listeners run to their await.
ChooseFile ==
    /\ phase = "page"
    /\ ~page.disabled
    /\ page.acts < MaxActs
    /\ \E f \in Files :
          /\ f.image => Cardinality(imagesIn(page.reads)) + 2 <= MaxCalls
          /\ page' = [chosen(chosen(page, 1, f), 2, f) EXCEPT !.acts = @ + 1]
    /\ UNCHANGED <<gridInput, phase, pc, onStep, top, stack, events, vres, sres, wres, again,
                   ret, scan>>

\* The listener reads[n] is resumed with r and runs to its end.
resumed(p, n, r) == [afterLoad(p, p.reads[n].copy, r) EXCEPT !.reads = RemoveAt(@, n)]

\* file.text() of one listener has settled, lines 107-133: it has resolved
\* with the text of the file, or it has rejected (the file cannot be read),
\* which throws at the await inside the try and runs lines 124-133.
FileRead ==
    /\ phase = "page"
    /\ Len(page.timers) < MaxTimers
    /\ \E n \in 1 .. Len(page.reads) :
          /\ page.reads[n].stage = "text"
          /\ \/ page' = resumed(page, n, string81ToGrid(page.reads[n].text))
             \/ page' = resumed(page, n, Thrown)
    /\ UNCHANGED <<gridInput, phase, pc, onStep, top, stack, events, vres, sres, wres, again,
                   ret, scan>>

\* createImageBitmap of one call of openCropAndRead has resolved, ocr.js
\* lines 813-885: the dialog is shown and the call adds its onUse and
\* onCancel to the buttons.
CropOpens ==
    /\ phase = "page"
    /\ \E n \in 1 .. Len(page.reads) :
          /\ page.reads[n].stage = "decoding"
          /\ page' = [page EXCEPT !.reads[n].stage = "crop", !.modal = TRUE]
    /\ UNCHANGED <<gridInput, phase, pc, onStep, top, stack, events, vres, sres, wres, again,
                   ret, scan>>

\* The click on Use Crop, ocr.js lines 852-859: the onUse of every call that
\* waits for the click disables the button and goes on to read the cells.
UseCrop ==
    /\ phase = "page"
    /\ page.modal
    /\ ~page.useOff
    /\ \E n \in 1 .. Len(page.reads) : page.reads[n].stage = "crop"
    /\ page' = [page EXCEPT
                   !.reads = [n \in 1 .. Len(page.reads) |->
                                 IF page.reads[n].stage = "crop"
                                 THEN [page.reads[n] EXCEPT !.stage = "reading"]
                                 ELSE page.reads[n]],
                   !.useOff = TRUE]
    /\ UNCHANGED <<gridInput, phase, pc, onStep, top, stack, events, vres, sres, wres, again,
                   ret, scan>>

\* cleanup, ocr.js lines 871-878: the Use button is enabled and the dialog
\* hidden.
cleanup(p) == [p EXCEPT !.modal = FALSE, !.useOff = FALSE]

\* onUse of the call reads[n] ends with r, ocr.js lines 861-867: after
\* cleanup the promise is settled and the listener resumed, unless onCancel
\* has settled it before.
used(p, n, r) ==
    IF p.reads[n].settled THEN [cleanup(p) EXCEPT !.reads = RemoveAt(@, n)]
    ELSE resumed(cleanup(p), n, r)

\* runCellOCR of one call has returned a grid, ocr.js lines 861-863 and
\* lines 105 and 112-133 of the listener.
OcrReturns ==
    /\ phase = "page"
    /\ Len(page.timers) < MaxTimers
    /\ \E n \in 1 .. Len(page.reads), r \in UiReads :
          /\ page.reads[n].stage = "reading"
          /\ page' = used(page, n, [thrown |-> FALSE,
                                    grid |-> sanitizeConflicts(r.grid, r.conf).grid])
    /\ UNCHANGED <<gridInput, phase, pc, onStep, top, stack, events, vres, sres, wres, again,
                   ret, scan>>

\* One call of openCropAndRead has thrown: createImageBitmap has rejected
\* (ocr.js line 813), or the reader has failed (lines 864-867); lines 124-133
\* of the listener.
OcrThrows ==
    /\ phase = "page"
    /\ Len(page.timers) < MaxTimers
    /\ \E n \in 1 .. Len(page.reads) :
          \/ /\ page.reads[n].stage = "decoding"
             /\ page' = resumed(page, n, Thrown)
          \/ /\ page.reads[n].stage = "reading"
             /\ page' = used(page, n, Thrown)
    /\ UNCHANGED <<gridInput, phase, pc, onStep, top, stack, events, vres, sres, wres, again,
                   ret, scan>>

\* The places in reads of the calls whose onCancel is on the dialog.
cancellable(reads) ==
    {n \in 1 .. Len(reads) : reads[n].stage \in {"crop", "reading"} /\ ~reads[n].settled}

RECURSIVE cancelled(_)
\* onCancel of every call that has it on the dialog, ocr.js line 850, in the
\* order of the calls: the promise is rejected and the listener runs lines
\* 124-133; an onUse that is running goes on.
cancelled(p) ==
    IF cancellable(p.reads) = {} THEN cleanup(p)
    ELSE IF p.reads[Min(cancellable(p.reads))].stage = "crop"
    THEN cancelled(resumed(p, Min(cancellable(p.reads)), Thrown))
    ELSE cancelled([afterLoad(p, p.reads[Min(cancellable(p.reads))].copy, Thrown)
                       EXCEPT !.reads[Min(cancellable(p.reads))].settled = TRUE])

\* The click on the close button of the dialog, or beside its card, ocr.js
\* lines 850 and 881.
CropCancelled ==
    /\ phase = "page"
    /\ page.modal
    /\ cancellable(page.reads) # {}
    /\ Len(page.timers) + Cardinality(cancellable(page.reads)) <= MaxTimers
    /\ page' = cancelled(page)
    /\ UNCHANGED <<gridInput, phase, pc, onStep, top, stack, events, vres, sres, wres, again,
                   ret, scan>>

UiNext ==
    \/ ClickSolve
    \/ CallSolveWithSteps
    \/ DfsEnter
    \/ DfsTry
    \/ DfsExhausted
    \/ DfsReturn
    \/ SolveFailed
    \/ AnimationStarts
    \/ AnimationFrame
    \/ TimerFires
    \/ InputEvent
    \/ KeyDownEvent
    \/ ClickClear
    \/ ChooseFile
    \/ FileRead
    \/ CropOpens
    \/ UseCrop
    \/ OcrReturns
    \/ OcrThrows
    \/ CropCancelled

UiSpec == UiInit /\ [][UiNext]_vars

-----------------------------------------------------------------------------
(* One run of runCellOCR of src/ocr.js: the cells are read into grid and    *)
(* conf (lines 1084-1190, an input here), and sanitizeConflicts is applied. *)

MaxScanCell == 2

\* Every cell read as 5.
AllFives == [i \in Cells |-> 5]

\* Solution with three digits misread.
Misread == Poke(Poke(Poke(Solution, 10, 1), 40, 2), 44, 9)

ScanGrids ==
    {Poke(b, c, v) : b \in {Solution, Misread}, c \in 0 .. MaxScanCell, v \in 0 .. 9}
        \cup {AllFives}

\* The confidences of the reads: a digit is kept at 55 or more (line 1183);
\* a cell without a digit has the confidence of the rejected read, 0 here.
ScanConfs ==
    {[i \in Cells |-> 55 + ((7 * i) % 45)], [i \in Cells |-> 99 - (i % 40)],
     [i \in Cells |-> 80]}

ReadCells ==
    /\ scan = NoScan
    /\ \E g \in ScanGrids, c \in ScanConfs :
          scan' = [stage |-> "read", grid |-> g,
                   conf |-> [i \in Cells |-> IF g[i] = 0 THEN 0 ELSE c[i]]]
    /\ UNCHANGED <<gridInput, phase, pc, onStep, top, stack, events, vres, sres, wres, again,
                   ret, page>>

\* Line 1193: return sanitizeConflicts(grid, conf).
sanitizedScan(sc, out) ==
    [stage |-> "sanitized", read |-> sc.grid, grid |-> out.arg, conf |-> out.conf,
     out |-> out.grid]

Sanitize ==
    /\ scan.stage = "read"
    /\ scan' = sanitizedScan(scan, sanitizeConflicts(scan.grid, scan.conf))
    /\ UNCHANGED <<gridInput, phase, pc, onStep, top, stack, events, vres, sres, wres, again,
                   ret, page>>

OcrNext == ReadCells \/ Sanitize

OcrInit ==
    /\ gridInput = ZeroGrid
    /\ phase = "page"
    /\ pc = "idle"
    /\ onStep = FALSE
    /\ top = NoTop
    /\ stack = << >>
    /\ events = << >>
    /\ vres = NoResult
    /\ sres = NoResult
    /\ wres = NoResult
    /\ again = NoResult
    /\ ret = Null
    /\ page = BlankPage
    /\ scan = NoScan

OcrSpec == OcrInit /\ [][OcrNext]_vars

-----------------------------------------------------------------------------
(* Vocabulary of the properties, stated on grids without the solver's tables *)

SameUnit(i, j) ==
    i # j /\ (rowOf(i) = rowOf(j) \/ colOf(i) = colOf(j) \/ boxOf(i) = boxOf(j))

Neighbours == [i \in Cells |-> {j \in Cells : SameUnit(i, j)}]

\* No unit holds two equal non-zero digits.
NoDuplicates(g) == \A i \in Cells : g[i] # 0 => \A j \in Neighbours[i] : g[j] # g[i]

\* The cells whose non-zero value also occurs in another cell of one of their units.
Clashing(g) == {i \in Cells : g[i] # 0 /\ \E j \in Neighbours[i] : g[j] = g[i]}

Digits == 1 .. 9

Complete(g) == \A i \in Cells : g[i] \in Digits

Extends(full, g) == \A i \in Cells : g[i] # 0 => full[i] = g[i]

\* The digits no filled peer of cell i holds.
Allowed(g, i) == Digits \ {g[j] : j \in Neighbours[i]}

\* Some empty cell has every digit among its filled peers.
DeadCell(g) == \E i \in Cells : g[i] = 0 /\ Allowed(g, i) = {}

RECURSIVE Fillable(_)
\* The empty cells of a grid without duplicates can all be filled without
\* creating one: exhaustive search on an empty cell with the fewest allowed digits.
Fillable(g) ==
    LET opts == [i \in Cells |-> IF g[i] = 0 THEN Cardinality(Allowed(g, i)) ELSE 10]
        least == Min({opts[i] : i \in Cells})
    IN  least = 10
        \/ \E d \in Allowed(g, CHOOSE i \in Cells : opts[i] = least) :
               Fillable(Poke(g, CHOOSE i \in Cells : opts[i] = least, d))

\* g can be extended to a complete grid without duplicates.
Completable(g) == NoDuplicates(g) /\ Fillable(g)

\* The rows, columns and boxes as sets of cells.
Houses ==
    {{j \in Cells : rowOf(j) = r} : r \in 0 .. 8}
        \cup {{j \in Cells : colOf(j) = c} : c \in 0 .. 8}
        \cup {{j \in Cells : boxOf(j) = b} : b \in 0 .. 8}

\* The placements <<cell, digit>> that a naked single or a hidden single
\* forces on g, given the digits A[i] allowed in each empty cell i.
ForcedBy(g, A) ==
    {m \in Cells \X Digits :
        /\ g[m[1]] = 0
        /\ m[2] \in A[m[1]]
        /\ \/ A[m[1]] = {m[2]}
           \/ \E H \in Houses :
                 m[1] \in H /\ \A j \in H \ {m[1]} : g[j] # 0 \/ m[2] \notin A[j]}

Forced(g) == ForcedBy(g, [i \in Cells |-> Allowed(g, i)])

RECURSIVE Singles(_)
\* g after naked and hidden singles have been placed, one at a time, until
\* none is left.
Singles(g) ==
    IF Forced(g) = {} THEN g
    ELSE Singles(Poke(g, (CHOOSE m \in Forced(g) : TRUE)[1], (CHOOSE m \in Forced(g) : TRUE)[2]))

\* Naked and hidden singles alone fill g completely and without a duplicate.
SinglesFill(g) == NoDuplicates(g) /\ Complete(Singles(g)) /\ NoDuplicates(Singles(g))

IsError(r, e) == Returned(r) /\ ~r.ok /\ r.error = e

EventTypes(ev) == {ev[k].type : k \in 1 .. Len(ev)}

\* The calls of the session that have returned.
SolveReturned == phase \in {"steps", "end"} /\ pc = "idle"

StepsReturned == phase = "end"

-----------------------------------------------------------------------------
(* Properties *)

\* C1: whenever solve or solveWithSteps returns ok:true, the returned grid has
\* no zero cell, no two equal digits in a row, column or box, and the input's
\* value at every cell that was non-zero in the input.
C1_SuccessIsValidCompletion ==
    \A r \in {sres, wres} :
        (Returned(r) /\ r.ok) =>
            Complete(r.grid) /\ NoDuplicates(r.grid) /\ Extends(r.grid, gridInput)

\* A search with backtracking has returned ok:true for a grid with empty cells.
C1_Witness ==
    /\ StepsReturned
    /\ wres.ok
    /\ "backtrack" \in EventTypes(events)
    /\ \E i \in Cells : gridInput[i] = 0

\* C2: solve returns ok:true for every input grid that can be extended to a
\* complete conflict-free grid (it returns ok:false only when there is no
\* valid completion).  sres is set when phase becomes "steps".
C2_CompletableIsSolved ==
    (phase = "steps" /\ pc = "idle" /\ Completable(gridInput)) => sres.ok

\* solve has succeeded on a grid with empty cells that has a completion, and
\* the search on that grid had to backtrack.
C2_Witness ==
    /\ StepsReturned
    /\ sres.ok
    /\ Extends(Solution, gridInput)
    /\ gridInput # Solution
    /\ "backtrack" \in EventTypes(events)

\* C3: validate(g).ok is true iff no unit contains two equal non-zero digits,
\* and validate(g).conflicts is exactly the set of cells whose non-zero value
\* also occurs in another cell of one of their units; 5 at cells 0 and 1
\* gives conflicts = {0, 1}.
C3_ValidateExact ==
    Returned(vres) =>
        /\ vres.ok = NoDuplicates(gridInput)
        /\ vres.conflicts = Clashing(gridInput)
        /\ (gridInput = TwoFives => vres.conflicts = {0, 1})

\* validate has returned for a grid with the same digit three times in row 0.
C3_Witness ==
    /\ Returned(vres)
    /\ \E i, j, k \in 0 .. 8 :
          /\ i < j /\ j < k
          /\ gridInput[i] # 0 /\ gridInput[i] = gridInput[j] /\ gridInput[j] = gridInput[k]
          /\ {i, j, k} \subseteq vres.conflicts

\* C5: validate, solve and solveWithSteps never change the caller-supplied
\* grid: no step of any call, whatever its outcome, changes a cell of it.
C5_CallerGridUntouched == [][gridInput' = gridInput]_vars

\* Both solver calls have returned, the solver's own grid was filled in by the
\* first propagation, and the caller's grid still has its empty cells.
C5_Witness ==
    /\ StepsReturned
    /\ top.stage = "propagate"
    /\ top.grid # gridInput
    /\ \E i \in Cells : gridInput[i] = 0 /\ top.grid[i] # 0

\* C6: solve(grid) and solveWithSteps(grid, sink) return the same result (ok
\* flag, error kind, conflicts, grid).
C6_SinkChangesNoResult == StepsReturned => sres = wres

\* Both calls have returned after a search, and the sink has received events.
C6_Witness ==
    /\ StepsReturned
    /\ "guess" \in EventTypes(events)
    /\ sres = wres

\* C7: if the input grid has a duplicate non-zero digit in some unit, solve
\* returns ok:false with error ConflictsFound and the conflicts of
\* validate(grid), before any propagation or search: the sink receives no event.
C7_ConflictsFirst ==
    ~NoDuplicates(gridInput) =>
        /\ SolveReturned =>
              sres = [ok |-> FALSE, error |-> "Conflicts found.", conflicts |-> vres.conflicts]
        /\ StepsReturned =>
              /\ wres = [ok |-> FALSE, error |-> "Conflicts found.",
                         conflicts |-> vres.conflicts]
              /\ events = << >>
        /\ stack = << >>
        /\ top.stage \in {"none", "validate"}

\* Both calls have returned ConflictsFound with at least three conflicting cells.
C7_Witness ==
    /\ StepsReturned
    /\ IsError(sres, "Conflicts found.")
    /\ IsError(wres, "Conflicts found.")
    /\ Cardinality(wres.conflicts) >= 3

\* C8: if the input grid is conflict-free but some empty cell has every digit
\* 1..9 among its filled peers, solve returns ok:false with error
\* InvalidPuzzle, no search is attempted and the sink receives no event.
C8_DeadCellIsInvalidPuzzle ==
    (NoDuplicates(gridInput) /\ DeadCell(gridInput)) =>
        /\ SolveReturned => sres = [ok |-> FALSE, error |-> "Invalid puzzle."]
        /\ StepsReturned =>
              wres = [ok |-> FALSE, error |-> "Invalid puzzle."] /\ events = << >>
        /\ stack = << >>
        /\ top.stage \in {"none", "buildCandidates"}

\* Both calls have returned InvalidPuzzle.
C8_Witness ==
    /\ StepsReturned
    /\ IsError(sres, "Invalid puzzle.")
    /\ IsError(wres, "Invalid puzzle.")
    /\ NoDuplicates(gridInput)

\* The first propagate of the running or last coreSolve left an unresolved
\* cell without candidates.
FirstPropagationEmptiedACell ==
    top.stage = "propagate" /\ \E i \in Cells : top.grid[i] = 0 /\ top.cand[i] = << >>

\* C9: solve returns error UnsolvablePuzzle exactly when the initial
\* propagation empties some unresolved cell's candidate set, and the trace
\* then holds assign events only.
C9_UnsolvableIffFirstPropagationFails ==
    /\ (phase = "steps" /\ pc = "idle") =>
          (IsError(sres, "Unsolvable puzzle.") <=> FirstPropagationEmptiedACell)
    /\ StepsReturned =>
          /\ IsError(wres, "Unsolvable puzzle.") <=> FirstPropagationEmptiedACell
          /\ IsError(wres, "Unsolvable puzzle.") => EventTypes(events) \subseteq {"assign"}

\* solveWithSteps has returned UnsolvablePuzzle after at least two assignments.
C9_Witness ==
    /\ StepsReturned
    /\ IsError(wres, "Unsolvable puzzle.")
    /\ Len(events) >= 2
    /\ FirstPropagationEmptiedACell

\* The last two events are the backtrack and unassign of the last candidate
\* of the first focused cell: the outermost dfs has run out of values.
EndsAtFinalExhaustion(ev) ==
    \E k \in 1 .. Len(ev) :
        /\ ev[k].type = "focus"
        /\ \A m \in 1 .. (k - 1) : ev[m].type # "focus"
        /\ Len(ev) >= k + 2
        /\ ev[Len(ev) - 1] = [type |-> "backtrack", i |-> ev[k].i,
                              val |-> top.cand[ev[k].i][Len(top.cand[ev[k].i])]]
        /\ ev[Len(ev)] = [type |-> "unassign", i |-> ev[k].i]

\* C10 as stated: a unit-conflict-free grid without a valid completion (here:
\* one with an empty cell that no digit fits) makes solve return
\* NoSolutionFound.
C10_NoCompletionIsNoSolutionFound ==
    (phase = "steps" /\ pc = "idle" /\ NoDuplicates(gridInput) /\ DeadCell(gridInput)) =>
        IsError(sres, "No solution found.")

\* C10, amended: for every unit-conflict-free grid without a valid completion
\* solve returns ok:false with error InvalidPuzzle, UnsolvablePuzzle or
\* NoSolutionFound, and when it is NoSolutionFound the trace ends with the
\* events of the final exhaustion.
C10_NoCompletionIsTypedError ==
    /\ (phase = "steps" /\ pc = "idle" /\ NoDuplicates(gridInput)
            /\ ~Completable(gridInput)) =>
          \/ IsError(sres, "Invalid puzzle.")
          \/ IsError(sres, "Unsolvable puzzle.")
          \/ IsError(sres, "No solution found.")
    /\ (StepsReturned /\ IsError(wres, "No solution found.")) =>
          EndsAtFinalExhaustion(events)

\* Both calls have returned NoSolutionFound after a search that went at least
\* two levels deep.
C10_Witness ==
    /\ StepsReturned
    /\ IsError(sres, "No solution found.")
    /\ IsError(wres, "No solution found.")
    /\ NoDuplicates(gridInput)
    /\ \E k \in 1 .. (Len(events) - 1) :
          events[k].type = "assign" /\ events[k + 1].type = "focus"

\* C11: if solve(g) succeeds with result g2, then solve(g2) succeeds and
\* returns a grid equal to g2, and solveWithSteps(g2, sink) emits no guess and
\* no backtrack event.
C11_SolveIsIdempotent ==
    /\ (phase \in {"steps2", "done"} /\ pc = "idle") =>
          again.solve = [ok |-> TRUE, grid |-> again.grid]
    /\ phase = "done" => EventTypes(events) \cap {"guess", "backtrack"} = {}

\* The grid solve returned for Puzzle, which needs a search, has been handed
\* back to solve and to solveWithSteps, and both have returned.
C11_Witness ==
    /\ phase = "done"
    /\ gridInput = Puzzle
    /\ Complete(again.grid)
    /\ Extends(again.grid, Puzzle)
    /\ again.solve.ok
    /\ again.steps.ok

\* C12: for every grid that repeated naked-single and hidden-single placement
\* alone fills completely, solveWithSteps returns ok:true and the trace holds
\* no guess and no backtrack event; a guess event occurs only after the
\* initial propagation has succeeded and left an unresolved cell.
C12_SinglesNeedNoGuess ==
    /\ (StepsReturned /\ SinglesFill(gridInput)) =>
          wres.ok /\ EventTypes(events) \cap {"guess", "backtrack"} = {}
    /\ "guess" \in EventTypes(events) =>
          top.stage = "propagate" /\ top.ok /\ \E i \in Cells : top.grid[i] = 0

\* solveWithSteps has filled at least twenty empty cells of a grid that
\* singles alone fill, without a guess.
C12_Witness ==
    /\ StepsReturned
    /\ wres.ok
    /\ Cardinality({i \in Cells : gridInput[i] = 0}) >= 20
    /\ SinglesFill(gridInput)
    /\ "guess" \notin EventTypes(events)
    /\ \E k \in 1 .. Len(events) : events[k].reason = "only-position"

\* A step in which a trial value of the activation at depth Len(stack') has
\* failed: the activation goes on to the values after it.  The step is a
\* trial whose assign or propagate failed, or the return of an exhausted
\* recursive call.
TrialFailed ==
    /\ pc # "idle"
    /\ Len(stack') \in 1 .. Len(stack)
    /\ stack[Len(stack')].at = "loop"
    /\ stack[Len(stack')].vals # << >>
    /\ Top(stack').vals = Tail(stack[Len(stack')].vals)

\* The last two events of ev are first and second.
EndsWith(ev, first, second) ==
    Len(ev) >= 2 /\ ev[Len(ev) - 1] = first /\ ev[Len(ev)] = second

\* C13 as stated: each time a trial value fails, the solver emits
\* unassign(cell) first and backtrack(cell, value) second before it tries the
\* next candidate value.
C13_UnassignThenBacktrack ==
    [][(onStep /\ TrialFailed) =>
          /\ Len(events') >= Len(events) + 2
          /\ EndsWith(events',
                      [type |-> "unassign", i |-> stack[Len(stack')].cell],
                      [type |-> "backtrack", i |-> stack[Len(stack')].cell,
                       val |-> Head(stack[Len(stack')].vals)])]_vars

\* C13, amended: each time a trial value fails, the solver emits
\* backtrack(cell, value) first and unassign(cell) second before it tries the
\* next candidate value.
C13_BacktrackThenUnassign ==
    [][(onStep /\ TrialFailed) =>
          /\ Len(events') >= Len(events) + 2
          /\ EndsWith(events',
                      [type |-> "backtrack", i |-> stack[Len(stack')].cell,
                       val |-> Head(stack[Len(stack')].vals)],
                      [type |-> "unassign", i |-> stack[Len(stack')].cell])]_vars

\* The last trial value of a nested activation has failed in its propagation
\* and the exhausted activation has returned to its caller: two trial
\* failures, of different cells, one right after the other.
C13_Witness ==
    /\ onStep
    /\ pc = "dfs"
    /\ Len(events) >= 4
    /\ events[Len(events) - 3].type = "backtrack"
    /\ events[Len(events) - 2].type = "unassign"
    /\ events[Len(events) - 1].type = "backtrack"
    /\ events[Len(events)].type = "unassign"
    /\ events[Len(events) - 3].i # events[Len(events)].i

\* Cell i is unresolved in (g, c), no unresolved cell has fewer candidates,
\* and none of as few candidates has a lower index.
IsMRV(g, c, i) ==
    /\ g[i] = 0
    /\ \A j \in Cells :
          g[j] = 0 => Len(c[i]) < Len(c[j]) \/ (Len(c[i]) = Len(c[j]) /\ i <= j)

\* The activation on top of the stack has focused its cell and has not tried
\* a value yet.
JustFocused ==
    /\ pc = "dfs"
    /\ Top(stack).at = "loop"
    /\ Top(stack).vals = Top(stack).cand[Top(stack).cell]

\* C14: every focus(cell) event names the unresolved cell whose candidate set
\* is smallest in the search state at that moment, and among the cells of that
\* size the one with the lowest index.
C14_FocusIsMRV ==
    /\ \A k \in 1 .. Len(stack) :
          stack[k].at = "loop" => IsMRV(stack[k].grid, stack[k].cand, stack[k].cell)
    /\ (onStep /\ JustFocused) =>
          /\ events # << >>
          /\ events[Len(events)] = [type |-> "focus", i |-> Top(stack).cell]

\* A focus event has just been emitted for a cell that ties with a later cell
\* on the candidate count, while an earlier unresolved cell has more candidates.
C14_Witness ==
    /\ onStep
    /\ JustFocused
    /\ events[Len(events)].type = "focus"
    /\ \E j \in Cells :
          /\ j > Top(stack).cell
          /\ Top(stack).grid[j] = 0
          /\ Len(Top(stack).cand[j]) = Len(Top(stack).cand[Top(stack).cell])
    /\ \E j \in Cells :
          /\ j < Top(stack).cell
          /\ Top(stack).grid[j] = 0
          /\ Len(Top(stack).cand[j]) > Len(Top(stack).cand[Top(stack).cell])

StrictlyAscending(q) == \A k \in 1 .. (Len(q) - 1) : q[k] < q[k + 1]

\* The values of the guess events for cell that follow the last focus event
\* for cell, in the order of the trace.
GuessedSinceFocus(ev, cell) ==
    LET from == Max({0} \cup {k \in 1 .. Len(ev) : ev[k] = [type |-> "focus", i |-> cell]})
        g == SelectSeq(SubSeq(ev, from + 1, Len(ev)),
                       LAMBDA e : e.type = "guess" /\ e.i = cell)
    IN  [n \in 1 .. Len(g) |-> g[n].val]

\* C15: within one invocation of the search on a state, the guess events for
\* the focused cell are emitted in strictly ascending order of value and
\* every value is a member of that cell's candidate set in that state: the
\* values guessed so far, followed by the values still to try, are the
\* candidate set of the cell, which is in ascending order.
C15_GuessesAscend ==
    (onStep /\ pc = "dfs") =>
        \A k \in 1 .. Len(stack) :
            stack[k].at = "loop" =>
                /\ StrictlyAscending(stack[k].cand[stack[k].cell])
                /\ GuessedSinceFocus(events, stack[k].cell)
                       \o (IF k = Len(stack) THEN stack[k].vals ELSE Tail(stack[k].vals))
                   = stack[k].cand[stack[k].cell]

\* A nested activation has guessed three values of its cell, which had lost
\* candidates to earlier assignments.
C15_Witness ==
    /\ onStep
    /\ pc = "dfs"
    /\ \E k \in 2 .. Len(stack) :
          /\ stack[k].at = "loop"
          /\ Len(GuessedSinceFocus(events, stack[k].cell)) >= 3
          /\ Len(stack[k].cand[stack[k].cell]) < 9

\* C16: every call of solve terminates: once solve is called on a grid, it
\* returns a result, ok:true with a grid or ok:false with an error.
C16_SolveReturns ==
    (phase = "solve") ~> (phase = "steps" /\ pc = "idle" /\ Returned(sres))

\* solve has returned after a search in which the outermost activation ran
\* out of values.
C16_Witness ==
    /\ phase = "steps"
    /\ pc = "idle"
    /\ top.stage = "propagate"
    /\ top.ok
    /\ ~Complete(top.grid)
    /\ IsError(sres, "No solution found.")

RECURSIVE AssignsOnlyToEmpty(_, _, _)
\* Replays the events of ev from the k-th on: filled is the stack of the sets
\* of filled cells of the branch states, the current one last.  A guess opens
\* a branch state, a backtrack discards it, and every assign has to name a
\* cell that is not filled in the current one.
AssignsOnlyToEmpty(ev, k, filled) ==
    IF k > Len(ev) THEN TRUE
    ELSE CASE ev[k].type = "guess" ->
                  AssignsOnlyToEmpty(ev, k + 1, Append(filled, Top(filled)))
           [] ev[k].type = "backtrack" ->
                  AssignsOnlyToEmpty(ev, k + 1, Pop(filled))
           [] ev[k].type = "assign" ->
                  /\ ev[k].i \notin Top(filled)
                  /\ AssignsOnlyToEmpty(ev, k + 1, SetTop(filled, Top(filled) \cup {ev[k].i}))
           [] OTHER -> AssignsOnlyToEmpty(ev, k + 1, filled)

\* C17: every assignment of the propagator targets a cell that is unresolved
\* in the search state at that moment: no cell that is a clue or has received
\* an assign event in a branch state receives an assign event in that state.
C17_AssignsOnlyToEmptyCells ==
    phase \in {"steps", "end"} =>
        AssignsOnlyToEmpty(events, 1, <<{i \in Cells : gridInput[i] # 0}>>)

\* No deduction is left in (g, c): every unresolved cell has at least two
\* candidates, and no digit is a candidate of exactly one unresolved cell of
\* a row, column or box.
FixedPoint(g, c) ==
    /\ \A i \in Cells : g[i] = 0 => Len(c[i]) >= 2
    /\ \A H \in Houses : \A d \in Digits :
          Cardinality({i \in H : g[i] = 0 /\ has(c[i], d)}) # 1

\* C18: propagate returns success only at a fixed point.  The states a
\* successful propagate has left are coreSolve's own state after the first
\* propagation and the state of every dfs activation.
C18_PropagateStopsAtFixedPoint ==
    /\ (top.stage = "propagate" /\ top.ok) => FixedPoint(top.grid, top.cand)
    /\ stack # << >> => FixedPoint(Top(stack).grid, Top(stack).cand)

\* The propagation of a branch has made assignments and succeeded, and the
\* branch state it left, with unresolved cells, is the state of a nested dfs
\* activation.
C18_Witness ==
    /\ onStep
    /\ pc = "dfs"
    /\ Len(stack) >= 2
    /\ Top(stack).at = "enter"
    /\ \E i \in Cells : Top(stack).grid[i] = 0
    /\ events[Len(events)].type = "assign"
    /\ events[Len(events)].reason # "guess"

\* C19: branch isolation.  The grid and the candidate sets of a dfs
\* activation never change while it is on the stack: when a trial value fails
\* and the search moves to the next one, the state of the parent is what it
\* was before the trial, and so is what the next branch is cloned from.
C19_BranchesAreIsolated ==
    [][\A k \in 1 .. Len(stack) :
          k <= Len(stack') =>
              stack'[k].grid = stack[k].grid /\ stack'[k].cand = stack[k].cand]_vars

\* A trial value of a nested activation has failed after its branch had made
\* assignments, and the activation has a next value to try.
C19_Witness ==
    /\ onStep
    /\ pc = "dfs"
    /\ Len(stack) >= 2
    /\ Top(stack).at = "loop"
    /\ Top(stack).vals # << >>
    /\ Top(stack).vals # Top(stack).cand[Top(stack).cell]
    /\ Len(events) >= 3
    /\ events[Len(events)].type = "unassign"
    /\ events[Len(events) - 2].type = "assign"
    /\ events[Len(events) - 2].reason # "guess"

\* In (g, c) the candidate set of every filled cell is the singleton of its
\* value and the candidate set of every empty cell holds digits only.
CandidatesMatchGrid(g, c) ==
    \A i \in Cells :
        IF g[i] # 0 THEN c[i] = <<g[i]>>
        ELSE \A k \in 1 .. Len(c[i]) : c[i][k] \in Digits

\* (g, c) after assign(g, c, i, val, "guess").
AfterGuess(g, c, i, val) ==
    CandidatesMatchGrid(assign(g, c, i, val, "guess", FALSE, << >>).grid,
                        assign(g, c, i, val, "guess", FALSE, << >>).cand)

\* C20: in every search state reached after buildCandidates and after each
\* assign, the candidate set of every filled cell is exactly the singleton of
\* that cell's value and the candidate set of every empty cell is a subset of
\* {1..9}: in what buildCandidates returns for the caller's grid, in the
\* state the first propagation leaves, in the state of the current dfs
\* activation and in its branch state right after the guess assignment.
C20_CandidatesMatchGrid ==
    /\ buildCandidates(gridInput).ok =>
          CandidatesMatchGrid(gridInput, buildCandidates(gridInput).cand)
    /\ top.stage = "propagate" => CandidatesMatchGrid(top.grid, top.cand)
    /\ stack # << >> =>
          /\ CandidatesMatchGrid(Top(stack).grid, Top(stack).cand)
          /\ (Top(stack).at = "loop" /\ Top(stack).vals # << >>) =>
                AfterGuess(Top(stack).grid, Top(stack).cand, Top(stack).cell,
                           Head(Top(stack).vals))

\* A nested dfs activation is about to try a value: its state has cells that
\* the solver filled, each with the singleton of its value as candidates, and
\* unresolved cells with several candidates.
C20_Witness ==
    /\ pc = "dfs"
    /\ Len(stack) >= 2
    /\ Top(stack).at = "loop"
    /\ Top(stack).vals # << >>
    /\ \E i \in Cells :
          /\ gridInput[i] = 0
          /\ Top(stack).grid[i] # 0
          /\ Top(stack).cand[i] = <<Top(stack).grid[i]>>
    /\ \E j \in Cells : Top(stack).grid[j] = 0 /\ Len(Top(stack).cand[j]) >= 2

\* The state a replay of the trace starts from: the grid, and for every cell
\* the digits its filled neighbours leave.
ReplayStart(g) ==
    [g |-> g, c |-> [i \in Cells |-> Allowed(g, i)], cell |-> -1, val |-> 0]

\* The replayed state b after assign(i, v): the cell is filled and its
\* unresolved neighbours lose v.
Placed(b, i, v) ==
    [b EXCEPT !.g = [b.g EXCEPT ![i] = v],
              !.c = [p \in Cells |->
                        IF p \in Neighbours[i] /\ b.g[p] = 0 THEN b.c[p] \ {v} ELSE b.c[p]]]

\* assign(i, v) on the replayed state b takes the last candidate of an
\* unresolved neighbour of i.
Empties(b, i, v) == \E p \in Neighbours[i] : b.g[p] = 0 /\ b.c[p] = {v}

\* The stack br of replayed branch states after event e: a guess opens a
\* branch state, a backtrack discards it, an assign places its value in the
\* current one.
BranchStep(br, e) ==
    CASE e.type = "guess" -> Append(br, [Top(br) EXCEPT !.cell = e.i, !.val = e.val])
      [] e.type = "backtrack" -> Pop(br)
      [] e.type = "assign" -> SetTop(br, Placed(Top(br), e.i, e.val))
      [] OTHER -> br

\* The start of a replay of the trace of a solve of g.
ReplayFrom(g) == [ok |-> TRUE, br |-> <<ReplayStart(g)>>]

\* Event k of ev, met with the stack br of replayed branch states (the guess
\* that opened it with each): after an assign that empties a neighbour, the
\* trace ends if it is in the initial propagation, and otherwise goes on with
\* the backtrack and unassign of the branch.
FailsFastAt(ev, k, br) ==
    ev[k].type = "assign" /\ Empties(Top(br), ev[k].i, ev[k].val) =>
        IF Len(br) = 1 THEN k = Len(ev)
        ELSE /\ Len(ev) >= k + 2
             /\ ev[k + 1].type = "backtrack"
             /\ ev[k + 1].i = Top(br).cell
             /\ ev[k + 2] = [type |-> "unassign", i |-> Top(br).cell]

RECURSIVE FailsFast(_, _, _, _)
\* Replays the events k + 1 .. n of ev from st = [ok, br]; ok turns FALSE at
\* the first event that breaks the rule, and the replay stops there.  The
\* range is replayed as its first half and then its second.
FailsFast(ev, k, n, st) ==
    IF ~st.ok \/ k >= n THEN st
    ELSE IF n = k + 1
         THEN [ok |-> FailsFastAt(ev, n, st.br), br |-> BranchStep(st.br, ev[n])]
         ELSE FailsFast(ev, (k + n) \div 2, n, FailsFast(ev, k, (k + n) \div 2, st))

\* C21: when an assignment empties the candidate set of an unresolved peer,
\* that propagate call emits no further assign event: the next events are the
\* backtrack and unassign of the branch, or there is no further event when
\* the failure is in the initial propagation.
C21_PropagationFailsFast ==
    phase \in {"steps", "end"} =>
        FailsFast(events, 0, Len(events), ReplayFrom(gridInput)).ok

\* A trial has just failed in its propagation after at least two assignments
\* of the propagator: the failing assign is right before the backtrack.
C21_Witness ==
    /\ onStep
    /\ pc = "dfs"
    /\ Len(events) >= 5
    /\ events[Len(events)].type = "unassign"
    /\ events[Len(events) - 1].type = "backtrack"
    /\ events[Len(events) - 2].type = "assign"
    /\ events[Len(events) - 2].reason # "guess"
    /\ events[Len(events) - 3].type = "assign"
    /\ events[Len(events) - 3].reason # "guess"

RECURSIVE BranchReplay(_, _, _, _)
\* Replays the events k + 1 .. n of ev from st = [ok, br], br being the stack
\* of replayed branch states; ok turns FALSE, and the replay stops, at a
\* backtrack that comes with no guess open.  The range is replayed as its
\* first half and then its second.
BranchReplay(ev, k, n, st) ==
    IF ~st.ok \/ k >= n THEN st
    ELSE IF n = k + 1
         THEN [ok |-> ev[n].type = "backtrack" => Len(st.br) > 1,
               br |-> BranchStep(st.br, ev[n])]
         ELSE BranchReplay(ev, (k + n) \div 2, n, BranchReplay(ev, k, (k + n) \div 2, st))

\* The stack of replayed branch states after the trace ev of a solve of g.
Branches(ev, g) == BranchReplay(ev, 0, Len(ev), ReplayFrom(g)).br

\* The guesses of ev without a backtrack, oldest first, as <<cell, value>>.
OpenGuesses(ev, g) ==
    [n \in 1 .. (Len(Branches(ev, g)) - 1) |->
        <<Branches(ev, g)[n + 1].cell,
          Branches(ev, g)[n + 1].val>>]

\* The guesses in progress in the dfs activations below the top one.
GuessPath ==
    [n \in 1 .. (Len(stack) - 1) |-> <<stack[n].cell, Head(stack[n].vals)>>]

\* A dfs activation is returning a solved grid.
ReturningSolved == pc = "return" /\ ret # Null

\* C22: once a branch state is Solved the result is returned through every
\* enclosing search level without trying further candidates: the last event
\* is the assign that completed the grid, no event is emitted while the
\* result is returned, and the guesses without a backtrack are exactly those
\* on the path to the solution.
C22_SolvedReturnsAtOnce ==
    /\ [](onStep /\ ReturningSolved /\ Top(stack).at = "enter" =>
            /\ ret = Top(stack).grid
            /\ events[Len(events)].type = "assign"
            /\ Top(Branches(events, gridInput)).g = ret
            /\ ~Complete(Top(Branches(SubSeq(events, 1, Len(events) - 1), gridInput)).g)
            /\ OpenGuesses(events, gridInput) = GuessPath)
    /\ [][ReturningSolved =>
            /\ events' = events
            /\ Len(stack') = Len(stack) - 1
            /\ IF stack' = << >>
               THEN pc' = "idle"
               ELSE pc' = "return" /\ ret' # Null /\ ret' = ret]_vars
    /\ [](phase = "end" /\ wres.ok /\ events # << >> =>
            /\ events[Len(events)].type = "assign"
            /\ Top(Branches(events, gridInput)).g = wres.grid
            /\ \A n \in 1 .. Len(OpenGuesses(events, gridInput)) :
                  wres.grid[OpenGuesses(events, gridInput)[n][1]]
                      = OpenGuesses(events, gridInput)[n][2])

\* solveWithSteps has returned a solution found at least three guesses deep,
\* after some other guess had been backtracked.
C22_Witness ==
    /\ phase = "end"
    /\ wres.ok
    /\ "backtrack" \in EventTypes(events)
    /\ Len(OpenGuesses(events, gridInput)) >= 3
    /\ events[Len(events)].type = "assign"

\* The number of cells of g that hold a digit, and that hold none.
FilledCount(g) == Cardinality({i \in Cells : g[i] # 0})

EmptyCount(g) == Cardinality({i \in Cells : g[i] = 0})

\* C23: the recursion depth of the search never exceeds 81: each recursive
\* call is made on a state with strictly more filled cells than its caller's,
\* so the depth is bounded by the number of cells the initial propagation
\* left empty.
C23_DepthIsBounded ==
    /\ Len(stack) <= 81
    /\ \A k \in 2 .. Len(stack) : FilledCount(stack[k].grid) > FilledCount(stack[k - 1].grid)
    /\ stack # << >> => (Len(stack) - 1) <= EmptyCount(stack[1].grid)

\* The search is four activations deep, the innermost one about to try a
\* value, on a grid the initial propagation left with more than four empty
\* cells.
C23_Witness ==
    /\ pc = "dfs"
    /\ Len(stack) >= 4
    /\ Top(stack).at = "loop"
    /\ Top(stack).vals # << >>
    /\ EmptyCount(stack[1].grid) > 4

\* Event k of ev, met with the stack br of replayed branch states, leaves a
\* branch state free of duplicates.
CleanAt(ev, k, br) ==
    ev[k].type = "assign" => NoDuplicates(Placed(Top(br), ev[k].i, ev[k].val).g)

RECURSIVE ReplayClean(_, _, _, _)
\* Replays the events k + 1 .. n of ev from st = [ok, br]; ok turns FALSE at
\* the first event that leaves a branch state with a duplicate, and the
\* replay stops there.  The range is replayed as its first half and then its
\* second.
ReplayClean(ev, k, n, st) ==
    IF ~st.ok \/ k >= n THEN st
    ELSE IF n = k + 1
         THEN [ok |-> CleanAt(ev, n, st.br), br |-> BranchStep(st.br, ev[n])]
         ELSE ReplayClean(ev, (k + n) \div 2, n, ReplayClean(ev, k, (k + n) \div 2, st))

\* The grid of the branch state that the next trial of the top activation
\* leaves behind, whether the trial fails or not.
TrialGrid ==
    trial(Top(stack), clone(Top(stack).grid, Top(stack).cand), FALSE, << >>).grid

AtTrial == pc = "dfs" /\ Top(stack).at = "loop" /\ Top(stack).vals # << >>

\* C27: every search state derived from a conflict-free input is free of
\* duplicate digits in every unit: the grid of the initial propagation, of
\* every dfs activation and of every trial, failed ones included, and every
\* state the trace passes through; so a full grid is always solved and dfs
\* never finds pickMRV = -1.
C27_SearchStatesHaveNoDuplicates ==
    validate(gridInput).ok /\ phase \in {"solve", "steps", "end"} =>
        /\ top # NoTop => NoDuplicates(top.grid)
        /\ \A k \in 1 .. Len(stack) :
              /\ NoDuplicates(stack[k].grid)
              /\ Complete(stack[k].grid) => solved(stack[k].grid)
              /\ ~solved(stack[k].grid) => pickMRV(stack[k].grid, stack[k].cand) # -1
        /\ AtTrial => NoDuplicates(TrialGrid)
        /\ ReplayClean(events, 0, Len(events), ReplayFrom(gridInput)).ok

\* The trial about to be made fails after the propagator has filled at least
\* three more cells than the guessed one, in a search two activations deep.
C27_Witness ==
    /\ validate(gridInput).ok
    /\ onStep
    /\ AtTrial
    /\ Len(stack) >= 2
    /\ ~trial(Top(stack), clone(Top(stack).grid, Top(stack).cand), FALSE, << >>).ok
    /\ FilledCount(TrialGrid) >= FilledCount(Top(stack).grid) + 4

\* What the cells filled in g show is what g holds.
ShowsClues(value, g) == \A i \in Cells : g[i] # 0 => value[i] = String(g[i])

RECURSIVE AnimationKeepsClues(_, _, _, _, _)
\* Shows the events k + 1 .. n of ev one at a time on the board of st =
\* [ok, value]; ok turns FALSE at the first event that changes what a cell
\* filled in g shows, and the replay stops there.  The range is shown as its
\* first half and then its second.
AnimationKeepsClues(st, g, ev, k, n) ==
    IF ~st.ok \/ k >= n THEN st
    ELSE IF n = k + 1
         THEN [ok |-> ShowsClues(animate(st.value, snapshotGivens(g), ev, k, n), g),
               value |-> animate(st.value, snapshotGivens(g), ev, k, n)]
         ELSE AnimationKeepsClues(AnimationKeepsClues(st, g, ev, k, (k + n) \div 2),
                                  g, ev, (k + n) \div 2, n)

\* C28: no event of any type names a cell that is filled in the input grid,
\* and every search state keeps the input's value at each such cell; so the
\* animation never changes the value shown in a given clue.
C28_CluesAreNeverTouched ==
    phase \in {"solve", "steps", "end"} =>
        /\ \A n \in 1 .. Len(events) : gridInput[events[n].i] = 0
        /\ top # NoTop => Extends(top.grid, gridInput)
        /\ \A k \in 1 .. Len(stack) :
              /\ Extends(stack[k].grid, gridInput)
              /\ stack[k].at = "loop" => gridInput[stack[k].cell] = 0
        /\ AtTrial => Extends(TrialGrid, gridInput)
        /\ Returned(sres) /\ sres.ok => Extends(sres.grid, gridInput)
        /\ Returned(wres) /\ wres.ok => Extends(wres.grid, gridInput)
        /\ AnimationKeepsClues([ok |-> TRUE, value |-> fillGrid(gridInput)], gridInput,
                               events, 0, Len(events)).ok

\* solveWithSteps has returned a solution of a grid with clues, with events
\* of all five types in the trace.
C28_Witness ==
    /\ phase = "end"
    /\ wres.ok
    /\ EventTypes(events) = {"focus", "guess", "assign", "unassign", "backtrack"}
    /\ FilledCount(gridInput) >= 17

\* Every input of the board shows nothing or one character.
OneEach(value) == \A i \in Cells : Len(value[i]) <= 1

RECURSIVE Replayed(_, _, _, _, _)
\* The animation of the steps k + 1 .. n on the board of st = [ok, value],
\* run as the first half of the range and then the second; ok turns FALSE,
\* and the replay stops, if a step leaves an input with more than one
\* character.
Replayed(st, given, steps, k, n) ==
    IF ~st.ok \/ k >= n THEN st
    ELSE IF n = k + 1
         THEN [ok |-> OneEach(animate(st.value, given, steps, k, n)),
               value |-> animate(st.value, given, steps, k, n)]
         ELSE Replayed(Replayed(st, given, steps, k, (k + n) \div 2),
                       given, steps, (k + n) \div 2, n)

\* The numeric grid the board shows after the animation of all of ev on the
\* board filled with g.
Animated(g, ev) ==
    getGrid(Replayed([ok |-> TRUE, value |-> fillGrid(g)], snapshotGivens(g), ev, 0,
                     Len(ev)).value)

\* The positions of the assign events of ev that name cell i.
AssignsOf(ev, i) == {n \in 1 .. Len(ev) : ev[n].type = "assign" /\ ev[n].i = i}

\* C29: replaying the trace of a successful solve on a copy of the input,
\* where assign sets the cell and unassign clears it unless it is a given,
\* ends with the returned solution: the last assign that names a cell carries
\* the solution's value, and no unassign of that cell follows it.
C29_ReplayEndsWithSolution ==
    phase = "end" /\ wres.ok =>
        /\ Replayed([ok |-> TRUE, value |-> fillGrid(gridInput)],
                    snapshotGivens(gridInput), events, 0, Len(events)).ok
        /\ Animated(gridInput, events) = wres.grid
        /\ getGrid(finalPaint(wres.grid)) = Animated(gridInput, events)
        /\ \A i \in Cells :
              IF AssignsOf(events, i) = {}
              THEN gridInput[i] = wres.grid[i]
              ELSE /\ events[Max(AssignsOf(events, i))].val = wres.grid[i]
                   /\ \A n \in Max(AssignsOf(events, i)) .. Len(events) :
                         ~(events[n].type = "unassign" /\ events[n].i = i)

\* The trace of a successful solve assigns some cell a value that is not the
\* solution's, and unassigns some cell that the solution fills.
C29_Witness ==
    /\ phase = "end"
    /\ wres.ok
    /\ \E n \in 1 .. Len(events) :
          events[n].type = "assign" /\ events[n].reason # "guess"
              /\ events[n].val # wres.grid[events[n].i]
    /\ \E n \in 1 .. Len(events) : events[n].type = "unassign"

\* Event k of ev, met with the guesses in open still without a backtrack: a
\* guess is followed at once by its assign, a backtrack closes the last open
\* guess and is followed by the one unassign of its cell, and an unassign
\* comes only right after a backtrack.
NestedAt(ev, k, open) ==
    CASE ev[k].type = "guess" ->
             /\ k < Len(ev)
             /\ ev[k + 1] = [type |-> "assign", i |-> ev[k].i, val |-> ev[k].val,
                             reason |-> "guess"]
      [] ev[k].type = "backtrack" ->
             /\ open # << >>
             /\ Top(open) = <<ev[k].i, ev[k].val>>
             /\ k < Len(ev)
             /\ ev[k + 1] = [type |-> "unassign", i |-> ev[k].i]
             /\ k + 1 < Len(ev) => ev[k + 2].type # "unassign"
      [] ev[k].type = "unassign" -> k > 1 /\ ev[k - 1].type = "backtrack"
      [] ev[k].type = "assign" ->
             ev[k].reason = "guess" => k > 1 /\ ev[k - 1].type = "guess"
      [] OTHER -> TRUE

\* The open guesses after event e.
OpenStep(open, e) ==
    CASE e.type = "guess" -> Append(open, <<e.i, e.val>>)
      [] e.type = "backtrack" -> Pop(open)
      [] OTHER -> open

RECURSIVE Nested(_, _, _, _)
\* Replays the events k + 1 .. n of ev from st = [ok, open]; ok turns FALSE
\* at the first event that breaks the nesting, and the replay stops there.
\* The range is replayed as its first half and then its second.
Nested(ev, k, n, st) ==
    IF ~st.ok \/ k >= n THEN st
    ELSE IF n = k + 1
         THEN [ok |-> NestedAt(ev, n, st.open), open |-> OpenStep(st.open, ev[n])]
         ELSE Nested(ev, (k + n) \div 2, n, Nested(ev, k, (k + n) \div 2, st))

\* The numbers of events of type t among the first n of ev.
CountOf(ev, n, t) == Cardinality({k \in 1 .. n : ev[k].type = t})

\* C30: guess and backtrack events nest like a stack: every guess(c, v) is
\* followed at once by assign(c, v, "guess"); every backtrack(c, v) matches
\* the most recent guess without a backtrack and comes with exactly one
\* unassign(c); in every prefix there are at most as many backtracks as
\* guesses, and when the solve returns "No solution found." every guess has
\* its backtrack.
C30_GuessesNestLikeAStack ==
    phase \in {"steps", "end"} =>
        /\ Nested(events, 0, Len(events), [ok |-> TRUE, open |-> << >>]).ok
        /\ \A n \in 0 .. Len(events) :
              CountOf(events, n, "backtrack") <= CountOf(events, n, "guess")
        /\ CountOf(events, Len(events), "unassign") = CountOf(events, Len(events), "backtrack")
        /\ phase = "end" /\ IsError(wres, "No solution found.") =>
              /\ OpenGuesses(events, gridInput) = << >>
              /\ CountOf(events, Len(events), "backtrack")
                    = CountOf(events, Len(events), "guess")

\* solveWithSteps has returned "No solution found." after guesses nested at
\* least two deep: some guess came while another was open.
C30_Witness ==
    /\ phase = "end"
    /\ IsError(wres, "No solution found.")
    /\ \E n \in 2 .. Len(events) :
          /\ events[n].type = "guess"
          /\ CountOf(events, n - 1, "guess") > CountOf(events, n - 1, "backtrack")

\* An animation of the board the user sees is running: its first tick is
\* requested and its last has not run.
Animating == \E a \in 1 .. Len(page.anims) : page.anims[a].copy = Shown

\* C24: while the solve animation is running, no user action changes the
\* value or the given flag of a cell: every step of the page that is no tick
\* and starts no animation leaves the inputs and the given flags of the board
\* as they are.
C24_NoEditsWhileAnimating ==
    [][Animating /\ page'.anims = page.anims =>
          page'.value[Shown] = page.value[Shown] /\ page'.given[Shown] = page.given[Shown]]_vars

\* C25: the feedback of flashButton is temporary: once no solve and no load
\* is running and every timer has fired, the solve button reads "Solve".
C25_ButtonReadsSolveAgain ==
    phase = "page" /\ page.anims = << >> /\ page.reads = << >> /\ page.timers = << >> =>
        page.btnText = "Solve"

\* C26: the grid sanitizeConflicts returns passes validate, differs from the
\* grid read only at cells it set to 0, and the array read is unchanged.
C26_SanitizedGridIsValid ==
    scan.stage = "sanitized" =>
        /\ validate(scan.out).ok
        /\ \A i \in Cells : scan.out[i] = scan.read[i] \/ scan.out[i] = 0
        /\ scan.grid = scan.read

=============================================================================
